---- MODULE Spec2Model ----
(***************************************************************************)
(* bankr-monitor: the notify / dedup / filter engine.                      *)
(*                                                                         *)
(* Strings are sequences of one-character strings, so that toLowerCase,    *)
(* trim, the leading-@ strip, the 0x+40-hex test and String.includes are   *)
(* computed character by character as the JavaScript does.  A value that   *)
(* is null, undefined or "" is the empty sequence: every test the code     *)
(* makes on such a value is a truthiness test, which cannot tell them      *)
(* apart.                                                                  *)
(***************************************************************************)
EXTENDS Integers, Sequences, FiniteSets, TLC

VARIABLES
    env,              \* process.env as parsed at notify.js:32-38
    watchEnv,         \* WATCH_* environment lists (watch-store.js:57-60)
    watchFile,        \* .bankr-watch.json (watch-store.js:35-53)
    seenFile,         \* .bankr-seen.json: array of seen keys, oldest first
    deployCountFile,  \* .bankr-deploy-counts.json: launcher -> tokens
    pc,               \* where the runNotify handler stands
    launches,         \* the batch fetched by the running cycle
    seenMem,          \* seenArr, the running cycle's in-memory seen array
    newLaunches,      \* runNotifyCycle's result (enriched new launches)
    decisions,        \* per fetched launch: what the filter at 606-614 did
    sent,             \* per delivery configuration: the messages the
                      \* delivery loop sends, in order
    cycles,           \* number of cycles started
    alerted,          \* keys returned as new by earlier cycles
    added,            \* every key pushed to the seen array, in push order
    countsBefore,     \* deploy counts as loaded by the running cycle
    fetchedPairs,     \* every (launcher, token) pair ever fetched
    seenBefore,       \* seen array as loaded by the running cycle
    io,               \* which file reads and writes of the running cycle
                      \* succeed
    cycleResult,      \* how the running cycle ended
    tenants,          \* .bankr-tenants.json: guild -> watchlist
    lastOp,           \* the last watch-list operation and what it returned
    ops,              \* number of watch-list operations done
    runs,             \* the bot's runNotify invocations: where each stands
                      \* and what it holds in its locals
    failing,          \* the Discord channel whose send() rejects during the
                      \* running delivery loop
    channels,         \* .bankr-tenants.json: guild -> whether it has an
                      \* entry, and the entry's delivery channels
    pending,          \* the store calls in flight (setTenant, the adds of
                      \* watch-store.js): where each stands, and the copy
                      \* of the file it loaded
    adapter,          \* fetchLaunches: what each provider would answer, and
                      \* what the call did and returned
    scan,             \* the chain scan: the chain head, .bankr-last-block.json
                      \* and the block ranges scanned so far
    loop,             \* the standalone notify loop: where it stands, its
                      \* child process, and what it has counted
    boot,             \* the bot process: its environment, how far its start
                      \* has come, and the cycles started by each origin
    tstore,           \* .bankr-tenants.json with every field of an entry,
                      \* the clock, and the last setTenant call
    lookup,           \* lookupCache of the bot, the clock, and the last
                      \* button press
    enrich            \* the single-launch enrichment of one cycle: its
                      \* inputs, the requests issued and the result

vars == <<env, watchEnv, watchFile, seenFile, deployCountFile, pc, launches,
          seenMem, newLaunches, decisions, sent, cycles, alerted, added,
          countsBefore, fetchedPairs, seenBefore, io, cycleResult, tenants,
          lastOp, ops, runs, failing, channels, pending,
          adapter, scan, loop, boot, tstore, lookup, enrich>>

watchOpVars == <<tenants, lastOp, ops>>

extraVars == <<runs, failing, channels, pending, adapter, scan,
               loop, boot, tstore, lookup, enrich>>

-----------------------------------------------------------------------------
(* Bounds of the model *)

MaxBatch == 3
MaxCycles == 2
MaxOps == 3
AddrHexLen == 2

-----------------------------------------------------------------------------
(* Strings *)

Null == <<>>

Truthy(s) == s /= Null

Range(s) == {s[i] : i \in DOMAIN s}

UpperChars == <<"A","B","C","D","E","F","G","H","I","J","K","L","M",
                "N","O","P","Q","R","S","T","U","V","W","X","Y","Z">>
LowerChars == <<"a","b","c","d","e","f","g","h","i","j","k","l","m",
                "n","o","p","q","r","s","t","u","v","w","x","y","z">>

LowerOf ==
    [c \in Range(UpperChars) |->
        LowerChars[CHOOSE i \in DOMAIN UpperChars : UpperChars[i] = c]]

LowerChar(c) == IF c \in DOMAIN LowerOf THEN LowerOf[c] ELSE c

toLowerCase(s) == [i \in 1..Len(s) |-> LowerChar(s[i])]

IsSpace(c) == c = " "

RECURSIVE trimStart(_)
trimStart(s) ==
    IF s /= <<>> /\ IsSpace(Head(s)) THEN trimStart(Tail(s)) ELSE s

RECURSIVE trimEnd(_)
trimEnd(s) ==
    IF s /= <<>> /\ IsSpace(s[Len(s)])
    THEN trimEnd(SubSeq(s, 1, Len(s) - 1))
    ELSE s

trim(s) == trimEnd(trimStart(s))

startsWithAt(s) == s /= <<>> /\ Head(s) = "@"

\* String.prototype.includes
includes(text, kw) ==
    \E i \in 0..(Len(text) - Len(kw)) :
        \A j \in 1..Len(kw) : text[i + j] = kw[j]

HexChars == {"0","1","2","3","4","5","6","7","8","9",
             "a","b","c","d","e","f","A","B","C","D","E","F"}

\* /^0x[a-fA-F0-9]{40}$/.test(s), with the 40 hex digits of an address scaled
\* down to AddrHexLen digits: no operation depends on the number itself
isAddress(s) ==
    /\ Len(s) = 2 + AddrHexLen
    /\ s[1] = "0"
    /\ s[2] = "x"
    /\ \A i \in 3..Len(s) : s[i] \in HexChars

normX(u) ==
    IF ~Truthy(u) THEN Null
    ELSE IF startsWithAt(u) THEN toLowerCase(Tail(u)) ELSE toLowerCase(u)

normHandle(u) ==
    IF ~Truthy(u) THEN Null ELSE toLowerCase(trim(u))

normAddr(a) ==
    IF Truthy(a) /\ isAddress(trim(a)) THEN toLowerCase(trim(a)) ELSE Null

-----------------------------------------------------------------------------
(* The watch store *)

parseHandle(s, stripAt) ==
    IF ~Truthy(s) THEN Null
    ELSE LET t == toLowerCase(trim(s))
         IN IF stripAt /\ startsWithAt(t) THEN Tail(t) ELSE t

parseWallet(s) ==
    IF ~Truthy(s) THEN Null
    ELSE IF isAddress(trim(s)) THEN toLowerCase(trim(s)) ELSE Null

parseKeyword(s) ==
    IF ~Truthy(s) THEN Null ELSE trim(s)

\* list.map(parse).filter(Boolean), collected into a Set
ParsedX(list) == {parseHandle(list[i], TRUE) : i \in DOMAIN list} \ {Null}

ParsedFc(list) == {parseHandle(list[i], FALSE) : i \in DOMAIN list} \ {Null}

ParsedWallet(list) == {parseWallet(list[i]) : i \in DOMAIN list} \ {Null}

ParsedKeywords(list) == {parseKeyword(list[i]) : i \in DOMAIN list} \ {Null}

getFromEnv(e) ==
    [x        |-> ParsedX(e.x),
     fc       |-> ParsedFc(e.fc),
     wallet   |-> ParsedWallet(e.wallet),
     keywords |-> ParsedKeywords(e.keywords)]

getWatchList(e, file) ==
    LET fromEnv == getFromEnv(e)
    IN [x        |-> fromEnv.x \cup ParsedX(file.x),
        fc       |-> fromEnv.fc \cup ParsedFc(file.fc),
        wallet   |-> fromEnv.wallet \cup ParsedWallet(file.wallet),
        keywords |-> fromEnv.keywords \cup ParsedKeywords(file.keywords)]

-----------------------------------------------------------------------------
(* Configuration and persisted state of notify.js *)

CHAIN_ID == 8453

\* An environment variable that is not set (null after parsing)
Unset == -1

SINGLE_LAUNCH_FETCH_LIMIT == 15

\* `${CHAIN_ID}:${l.tokenAddress.toLowerCase()}`
KeyRaw(l) == <<CHAIN_ID, l.tokenAddress>>

Key(l) == <<CHAIN_ID, toLowerCase(l.tokenAddress)>>

\* arr.slice(-n)
SliceLast(arr, n) == SubSeq(arr, Len(arr) - n + 1, Len(arr))

SeenBounded(e) == e.SEEN_MAX_KEYS /= Unset /\ e.SEEN_MAX_KEYS > 0

loadSeen(file, e) ==
    IF SeenBounded(e) /\ Len(file) > e.SEEN_MAX_KEYS
    THEN SliceLast(file, e.SEEN_MAX_KEYS)
    ELSE file

saveSeen(seenArr, e) ==
    IF SeenBounded(e) /\ Len(seenArr) > e.SEEN_MAX_KEYS
    THEN SliceLast(seenArr, e.SEEN_MAX_KEYS)
    ELSE seenArr

EmptyCounts == [a \in {} |-> {}]

\* out[k.toLowerCase()] = new Set(v) for every key of the file
loadDeployCounts(file) ==
    [k \in {toLowerCase(a) : a \in DOMAIN file} |->
        file[CHOOSE a \in DOMAIN file : toLowerCase(a) = k]]

\* out[k] = [...v] for every key of the map
saveDeployCounts(counts) == counts

\* One round of the attribution loop (notify.js:575-579)
Attribute(counts, l) ==
    LET addr == toLowerCase(l.launcher)
    IN IF Truthy(addr) /\ Truthy(l.tokenAddress)
       THEN [a \in DOMAIN counts \cup {addr} |->
                IF a = addr
                THEN (IF a \in DOMAIN counts THEN counts[a] ELSE {})
                         \cup {toLowerCase(l.tokenAddress)}
                ELSE counts[a]]
       ELSE counts

RECURSIVE AttributeAll(_, _)
AttributeAll(counts, ls) ==
    IF ls = <<>> THEN counts
    ELSE AttributeAll(Attribute(counts, Head(ls)), Tail(ls))

\* The deploy counts that passesFilters reads while launch i of the batch is
\* filtered: the attribution loop has run over the whole batch by then.
CountsAtFilterRunning(counts0, ls, i) == AttributeAll(counts0, SubSeq(ls, 1, i))

CountsAtFilter(counts0, ls, i) == AttributeAll(counts0, ls)

\* l.launcher ? deployCounts[l.launcher.toLowerCase()]?.size : 0
\* (a missing entry gives undefined, and undefined > n is false, like 0 > n)
DeployCount(l, counts) ==
    IF ~Truthy(l.launcher) THEN 0
    ELSE IF toLowerCase(l.launcher) \in DOMAIN counts
         THEN Cardinality(counts[toLowerCase(l.launcher)])
         ELSE 0

-----------------------------------------------------------------------------
(* passesFilters and isWatchMatch *)

Fee0X(l) ==
    IF Len(l.beneficiaries) > 0 /\ Truthy(l.beneficiaries[1].xUsername)
    THEN normX(l.beneficiaries[1].xUsername) ELSE Null

Fee0Fc(l) ==
    IF Len(l.beneficiaries) > 0 /\ Truthy(l.beneficiaries[1].farcaster)
    THEN normHandle(l.beneficiaries[1].farcaster) ELSE Null

DeployerX(l) == IF Truthy(l.launcherX) THEN normX(l.launcherX) ELSE Null

DeployerFc(l) ==
    IF Truthy(l.launcherFarcaster) THEN normHandle(l.launcherFarcaster) ELSE Null

XMatchCheckNoFc(l, e) ==
    IF e.FILTER_X_MATCH
    THEN Truthy(DeployerX(l)) /\ Truthy(Fee0X(l)) /\ DeployerX(l) = Fee0X(l)
    ELSE TRUE

\* notify.js:589-597
XMatchCheck(l, e) ==
    IF e.FILTER_X_MATCH
    THEN LET xMatch  == Truthy(DeployerX(l)) /\ Truthy(Fee0X(l))
                            /\ DeployerX(l) = Fee0X(l)
             fcMatch == Truthy(DeployerFc(l)) /\ Truthy(Fee0Fc(l))
                            /\ DeployerFc(l) = Fee0Fc(l)
         IN xMatch \/ fcMatch
    ELSE TRUE

\* notify.js:598-601
MaxDeploysCheck(l, counts, e) ==
    IF e.FILTER_MAX_DEPLOYS /= Unset /\ e.FILTER_MAX_DEPLOYS > 0
    THEN ~(DeployCount(l, counts) > e.FILTER_MAX_DEPLOYS)
    ELSE TRUE

passesFilters(l, counts, e) == XMatchCheck(l, e) /\ MaxDeploysCheck(l, counts, e)

hasWatchList(w) ==
    w.x /= {} \/ w.fc /= {} \/ w.wallet /= {} \/ w.keywords /= {}

\* typeof b === "object" ? (b.beneficiary ?? b.address ?? b.wallet) : b
FeeAddrs(l) ==
    {normAddr(l.beneficiaries[i].beneficiary) : i \in DOMAIN l.beneficiaries}
        \ {Null}

AllWalletAddrs(l) == ({normAddr(l.launcher)} \ {Null}) \cup FeeAddrs(l)

SearchText(l) == toLowerCase(l.name \o <<" ">> \o l.symbol)

\* notify.js:638-658
isWatchMatch(l, w) ==
    LET inWatchX       == Truthy(DeployerX(l)) /\ DeployerX(l) \in w.x
        inWatchFc      == Truthy(DeployerFc(l)) /\ DeployerFc(l) \in w.fc
        inWatchWallet  == w.wallet /= {}
                            /\ \E a \in AllWalletAddrs(l) : a \in w.wallet
        inWatchKeyword == w.keywords /= {}
                            /\ \E kw \in w.keywords :
                                   includes(SearchText(l), trim(toLowerCase(kw)))
    IN inWatchX \/ inWatchFc \/ inWatchWallet \/ inWatchKeyword

-----------------------------------------------------------------------------
(* runNotifyCycle *)

\* fetchFromBankrApi keeps the first launch of every lowercased token address
\* (notify.js:156-162)
RECURSIVE BankrDedupe(_, _)
BankrDedupe(batch, seen) ==
    IF batch = <<>> THEN <<>>
    ELSE LET l   == Head(batch)
             key == toLowerCase(l.tokenAddress)
         IN IF Truthy(key) /\ key \notin seen
            THEN <<l>> \o BankrDedupe(Tail(batch), seen \cup {key})
            ELSE BankrDedupe(Tail(batch), seen)

\* What fetchLaunches returns when `provider` is the one that answers: the
\* Bankr API, or the indexer / the chain scan, which pass their items on as
\* they come
Providers == {"bankr", "indexer"}

fetchLaunches(provider, raw) ==
    IF provider = "bankr" THEN BankrDedupe(raw, {}) ELSE raw

\* seenArr.push(key), then seenArr.shift() when over SEEN_MAX_KEYS
PushSeenNoShift(seenArr, key, e) == Append(seenArr, key)

PushSeen(seenArr, key, e) ==
    LET pushed == Append(seenArr, key)
    IN IF SeenBounded(e) /\ Len(pushed) > e.SEEN_MAX_KEYS
       THEN Tail(pushed) ELSE pushed

\* if (!passes && !hasWatchList) return false;
IncludeIfPasses(passes, watching) == passes

Include(passes, watching) == passes \/ watching

\* launches.filter(...) at notify.js:606-614, from launch i on.  acc carries
\* the seen array, the launches kept so far, and what was done with each.
RECURSIVE FilterFrom(_, _, _, _, _, _)
FilterFrom(i, ls, acc, counts0, e, watching) ==
    IF i > Len(ls) THEN acc
    ELSE
      LET l      == ls[i]
          key    == Key(l)
          counts == CountsAtFilter(counts0, ls, i)
          passes == passesFilters(l, counts, e)
          next   ==
            IF key \in Range(acc.seenArr)
            THEN [acc EXCEPT !.decisions =
                     Append(@, [outcome |-> "Duplicate", passes |-> FALSE,
                                count |-> 0])]
            ELSE IF ~Include(passes, watching)
            THEN [acc EXCEPT !.decisions =
                     Append(@, [outcome |-> "Suppress", passes |-> passes,
                                count |-> DeployCount(l, counts)])]
            ELSE [seenArr   |-> PushSeen(acc.seenArr, key, e),
                  kept      |-> Append(acc.kept, l),
                  pushed    |-> Append(acc.pushed, key),
                  decisions |-> Append(acc.decisions,
                                  [outcome |-> "New", passes |-> passes,
                                   count |-> DeployCount(l, counts)])]
      IN FilterFrom(i + 1, ls, next, counts0, e, watching)

hasWallet(l) == Truthy(l.launcher) \/ Len(l.beneficiaries) > 0

\* if (filled.x) launch.x = filled.x, for the four fields (notify.js:628-631)
Fill(l, filled) ==
    [l EXCEPT
       !.launcher = IF Truthy(filled.launcher) THEN filled.launcher ELSE @,
       !.launcherX = IF Truthy(filled.launcherX) THEN filled.launcherX ELSE @,
       !.launcherFarcaster =
           IF Truthy(filled.launcherFarcaster) THEN filled.launcherFarcaster ELSE @,
       !.beneficiaries =
           IF Len(filled.beneficiaries) > 0 THEN filled.beneficiaries ELSE @]

\* The launches for which a single-launch request is issued when the
\* enrichment block runs (notify.js:618-623)
NeedsDetail(kept) == {i \in DOMAIN kept : ~hasWallet(kept[i])}

\* The enrichment loop (notify.js:620-633) from launch i on; resp[i] is the
\* answer of GET token-launches/:address for launch i
RECURSIVE EnrichFrom(_, _, _, _)
EnrichFrom(i, kept, resp, fetched) ==
    IF i > Len(kept) THEN kept
    ELSE IF fetched >= SINGLE_LAUNCH_FETCH_LIMIT THEN kept
    ELSE IF hasWallet(kept[i]) \/ i \notin DOMAIN resp THEN
        EnrichFrom(i + 1, kept, resp, fetched)
    ELSE IF ~resp[i].ok THEN EnrichFrom(i + 1, kept, resp, fetched)
    ELSE EnrichFrom(i + 1, [kept EXCEPT ![i] = Fill(@, resp[i].filled)],
                    resp, fetched + 1)

\* One element of `enriched` (notify.js:660-668); the launch's own fields are
\* kept together under `launch` instead of being spread
Enriched(l, counts, w, e) ==
    [launch       |-> l,
     deployCount  |-> DeployCount(l, counts),
     isWatchMatch |-> isWatchMatch(l, w),
     passedFilters |-> passesFilters(l, counts, e)]

-----------------------------------------------------------------------------
(* Delivery: main of notify.js and the two runNotify variants of the bot *)

NoChannel == "none"

Msg(to, n) == [to |-> to, token |-> n.launch.tokenAddress]

If(c, m) == IF c THEN <<m>> ELSE <<>>

\* notify.js:691-694: sendDiscordWebhook and sendTelegram for every launch
SendMain(n, d) ==
    If(d.webhook, Msg("webhook", n)) \o If(d.telegram, Msg("telegram", n))

\* discord-bot.js:91-96 (and 386-403)
SendBotV1(n, d) ==
    If(d.alert /= NoChannel, Msg(d.alert, n))
      \o If(n.isWatchMatch /\ d.watch /= NoChannel /\ d.watch /= d.alert,
            Msg(d.watch, n))
      \o If(d.telegram, Msg("telegram", n))

\* part_007:374-404
SendBotV2NoWatch(n, d) ==
    If(d.alert /= NoChannel /\ n.passedFilters, Msg(d.alert, n))
      \o If(d.telegram, Msg("telegram", n))

SendBotV2(n, d) ==
    LET showInAlert == n.passedFilters
        showInWatch == n.isWatchMatch
        sameChannel == d.alert /= NoChannel /\ d.watch /= NoChannel
                          /\ d.alert = d.watch
    IN (IF sameChannel
        THEN If(showInAlert \/ showInWatch, Msg(d.alert, n))
        ELSE If(d.alert /= NoChannel /\ showInAlert, Msg(d.alert, n))
               \o If(d.watch /= NoChannel /\ showInWatch, Msg(d.watch, n)))
       \o If(d.telegram, Msg("telegram", n))

SendOne(n, d) ==
    CASE d.mode = "main"  -> SendMain(n, d)
      [] d.mode = "botV1" -> SendBotV1(n, d)
      [] d.mode = "botV2" -> SendBotV2(n, d)

RECURSIVE SendAll(_, _)
SendAll(ns, d) ==
    IF ns = <<>> THEN <<>> ELSE SendOne(Head(ns), d) \o SendAll(Tail(ns), d)

\* main needs a webhook or Telegram (notify.js:683-688); the bot delivers
\* itself only when a channel id is set (discord-bot.js:84-85)
DeliveryConfigs ==
    {d \in [mode : {"main"}, webhook : BOOLEAN, telegram : BOOLEAN,
            alert : {NoChannel}, watch : {NoChannel}] :
        d.webhook \/ d.telegram}
    \cup
    {d \in [mode : {"botV1", "botV2"}, webhook : {FALSE}, telegram : BOOLEAN,
            alert : {NoChannel, "chA"}, watch : {NoChannel, "chA", "chW"}] :
        d.alert /= NoChannel \/ d.watch /= NoChannel}

NothingSent == [d \in DeliveryConfigs |-> <<>>]

-----------------------------------------------------------------------------
(* The launches, watch lists and settings the model runs on *)

Addr(c) == <<"0", "x">> \o [i \in 1..AddrHexLen |-> c]

Ben(addr, x, fc) == [beneficiary |-> addr, xUsername |-> x, farcaster |-> fc]

Launch(name, symbol, token, launcher, lx, lfc, bens) ==
    [name |-> name, symbol |-> symbol, tokenAddress |-> token,
     launcher |-> launcher, launcherX |-> lx, launcherFarcaster |-> lfc,
     beneficiaries |-> bens]

\* deployer and fee recipient share the X account bob
L1 == Launch(<<"M","o","o","n">>, <<"M">>, Addr("a"), Addr("d"),
             <<"b","o","b">>, Null,
             <<Ben(Addr("e"), <<"@","B","o","b">>, Null)>>)
\* the token of L1 and its launcher, spelled in upper case
L2 == Launch(<<"S","u","n">>, <<"S">>, Addr("A"), Addr("D"), Null, Null, <<>>)
\* a second token of the same launcher
L3 == Launch(<<"S","u","n">>, <<"S">>, Addr("b"), Addr("d"), Null, Null, <<>>)
\* a launch the list API returned without deployer and fee recipient
L4 == Launch(<<"S","t","a","r">>, <<"T">>, Addr("c"), Null, Null, Null, <<>>)

CycleItems == {L1, L2, L3, L4}

Batches(items) == UNION {[1..n -> items] : n \in 0..MaxBatch}

NoDetail ==
    [ok |-> FALSE,
     filled |-> [launcher |-> Null, launcherX |-> Null,
                 launcherFarcaster |-> Null, beneficiaries |-> <<>>]]

DetailD ==
    [ok |-> TRUE,
     filled |-> [launcher |-> Addr("d"), launcherX |-> Null,
                 launcherFarcaster |-> Null, beneficiaries |-> <<>>]]

Responses == {NoDetail, DetailD}

EmptyWatch == [x |-> <<>>, fc |-> <<>>, wallet |-> <<>>, keywords |-> <<>>]

WatchFiles ==
    {EmptyWatch,
     [EmptyWatch EXCEPT !.wallet = <<Addr("d")>>],
     [EmptyWatch EXCEPT !.keywords = <<<<"M","o","o","n">>>>]}

Envs ==
    [SEEN_MAX_KEYS : {Unset, 0, 1, 2},
     FILTER_X_MATCH : BOOLEAN,
     FILTER_MAX_DEPLOYS : {Unset, 0, 1}]

\* every read and write of the cycle's two files succeeds
AllOk == [seenRead |-> TRUE, countsRead |-> TRUE,
          seenWrite |-> TRUE, countsWrite |-> TRUE]

Guilds == {"g1"}

\* no tenant has watch-list entries (DEFAULT_WATCHLIST)
NoTenants == [g \in Guilds |-> EmptyWatch]

NoOp == [kind |-> "none", store |-> "none", axis |-> "none", value |-> Null,
         ret |-> FALSE, before |-> EmptyWatch]

\* the bot's timer has not fired: no runNotify invocation has started
MaxRuns == 2

NotStarted == [pc |-> "idle", seenArr |-> <<>>, newLaunches |-> <<>>,
               delivered |-> <<>>]

NoRuns == [r \in 1..MaxRuns |-> NotStarted]

\* the guilds of the tenants file, none of which has an entry yet
MaxCalls == 3

ChannelFields == {"alertChannelId", "watchAlertChannelId", "telegramChatId"}

NoEntry == [exists |-> FALSE, alertChannelId |-> Null,
            watchAlertChannelId |-> Null, telegramChatId |-> Null]

NoEntries == [g \in Guilds |-> NoEntry]

NotCalled == [pc |-> "idle", guild |-> "none", updates |-> <<>>,
              file |-> <<>>]

NoCalls == [i \in 1..MaxCalls |-> NotCalled]

\* fetchLaunches has not been called
NoFetch == [key |-> FALSE, chainId |-> CHAIN_ID,
            bankr |-> [outcome |-> "empty", items |-> <<>>],
            indexer |-> [outcome |-> "empty", items |-> <<>>],
            chain |-> [outcome |-> "items", items |-> <<>>],
            called |-> FALSE, threw |-> FALSE, consulted |-> <<>>,
            list |-> <<>>]

\* no last-block file and nothing scanned; the file holds a block number
\* and a chain id, Unset standing for a missing file
NoScan == [head |-> 0, lastBlock |-> Unset, storedChain |-> Unset,
           ranges |-> <<>>]

\* loop() has been called and stands before its first runNotify()
LoopStart == [pc |-> "spawn", child |-> "none", started |-> 0,
              exited |-> 0, logged |-> 0, delay |-> "none"]

\* the bot process has not been started
NoBoot == [pc |-> "off", token |-> FALSE, alert |-> FALSE, watch |-> FALSE,
           webhook |-> FALSE, tgToken |-> FALSE, tgChat |-> FALSE,
           ownCycle |-> "none", scheduled |-> 0, spawned |-> 0,
           exitCode |-> Unset]

\* no tenants file, and setTenant has not been called
NoStore == [file |-> <<>>, now |-> 0, last |-> <<>>]

\* lookupCache = new Map() (discord-bot.js:227)
NoLookup ==
    [cache |-> <<>>, now |-> 0,
     last |-> [kind |-> "none", msg |-> "none", customId |-> "none",
               reply |-> "none", cached |-> FALSE]]

\* the enrichment block has not run
NoEnrich == [limit |-> 0, kept |-> <<>>, resp |-> <<>>, requests |-> <<>>,
             fetched |-> 0, done |-> FALSE]

InitLate ==
    /\ boot = NoBoot
    /\ tstore = NoStore
    /\ lookup = NoLookup
    /\ enrich = NoEnrich

InitExtra ==
    /\ runs = NoRuns
    /\ failing = NoChannel
    /\ channels = NoEntries
    /\ pending = NoCalls
    /\ adapter = NoFetch
    /\ scan = NoScan
    /\ loop = LoopStart
    /\ InitLate

-----------------------------------------------------------------------------
(* The state machine *)

Init ==
    /\ env \in Envs
    /\ watchEnv = EmptyWatch
    /\ watchFile \in WatchFiles
    /\ seenFile = <<>>
    /\ deployCountFile = EmptyCounts
    /\ pc = "idle"
    /\ launches = <<>>
    /\ seenMem = <<>>
    /\ newLaunches = <<>>
    /\ decisions = <<>>
    /\ sent = NothingSent
    /\ cycles = 0
    /\ alerted = {}
    /\ added = <<>>
    /\ countsBefore = EmptyCounts
    /\ fetchedPairs = {}
    /\ seenBefore = <<>>
    /\ io = AllOk
    /\ cycleResult = "none"
    /\ tenants = NoTenants
    /\ lastOp = NoOp
    /\ ops = 0
    /\ InitExtra

Pairs(ls) ==
    {<<toLowerCase(ls[i].launcher), toLowerCase(ls[i].tokenAddress)>> :
        i \in {j \in DOMAIN ls : Truthy(ls[j].launcher)
                                   /\ Truthy(ls[j].tokenAddress)}}

\* loadSeen / loadDeployCounts when the read or the parse may fail: the
\* catch block returns the empty array / the empty object
readSeenStale(ok, file, e) == loadSeen(file, e)

readSeen(ok, file, e) == IF ok THEN loadSeen(file, e) ELSE <<>>

readDeployCounts(ok, file) == IF ok THEN loadDeployCounts(file) ELSE EmptyCounts

\* runNotifyCycle without the early return on an empty batch
\* (notify.js:568-571)
CycleIONoEarlyReturn(fetched, o) ==
    LET loaded   == readSeen(o.seenRead, seenFile, env)
        counts0  == readDeployCounts(o.countsRead, deployCountFile)
        counts   == AttributeAll(counts0, fetched)
        w        == getWatchList(watchEnv, watchFile)
        watching == hasWatchList(w)
        acc      == FilterFrom(1, fetched,
                       [seenArr |-> loaded, kept |-> <<>>,
                        pushed |-> <<>>, decisions |-> <<>>],
                       counts0, env, watching)
        detail   == IF watching /\ w.wallet /= {} /\ Len(acc.kept) > 0
                    THEN NeedsDetail(acc.kept) ELSE {}
    IN
    /\ launches' = fetched
    /\ countsBefore' = counts0
    /\ seenBefore' = loaded
    /\ io' = o
    /\ \E resp \in [detail -> Responses] :
         LET filled == EnrichFrom(1, acc.kept, resp, 0)
         IN /\ decisions' = acc.decisions
            /\ seenMem' = acc.seenArr
            /\ deployCountFile' = IF o.countsWrite
                                  THEN saveDeployCounts(counts)
                                  ELSE deployCountFile
            /\ fetchedPairs' = fetchedPairs \cup Pairs(fetched)
            /\ IF o.seenWrite
               THEN /\ newLaunches' =
                         [i \in 1..Len(filled) |->
                             Enriched(filled[i], counts, w, env)]
                    /\ seenFile' = saveSeen(acc.seenArr, env)
                    /\ added' = added \o acc.pushed
                    /\ cycleResult' = "returned"
               ELSE /\ newLaunches' = <<>>
                    /\ cycleResult' = "saveSeenThrew"
                    /\ UNCHANGED <<seenFile, added>>

\* runNotifyCycle (notify.js:561-680) on the batch `fetched`, with the file
\* reads and writes succeeding as `o` says.  A failed write of the deploy
\* counts is swallowed by saveDeployCounts; a failed write of the seen file
\* makes saveSeen, and with it runNotifyCycle, throw.
CycleIO(fetched, o) ==
    LET loaded  == readSeen(o.seenRead, seenFile, env)
        counts0 == readDeployCounts(o.countsRead, deployCountFile)
    IN
    /\ launches' = fetched
    /\ countsBefore' = counts0
    /\ seenBefore' = loaded
    /\ io' = o
    /\ IF fetched = <<>>
       THEN /\ newLaunches' = <<>>
            /\ decisions' = <<>>
            /\ seenMem' = loaded
            /\ cycleResult' = "returned"
            /\ UNCHANGED <<seenFile, deployCountFile, added, fetchedPairs>>
       ELSE LET counts   == AttributeAll(counts0, fetched)
                w        == getWatchList(watchEnv, watchFile)
                watching == hasWatchList(w)
                acc      == FilterFrom(1, fetched,
                               [seenArr |-> loaded, kept |-> <<>>,
                                pushed |-> <<>>, decisions |-> <<>>],
                               counts0, env, watching)
                detail   == IF watching /\ w.wallet /= {} /\ Len(acc.kept) > 0
                            THEN NeedsDetail(acc.kept) ELSE {}
            IN \E resp \in [detail -> Responses] :
                 LET filled == EnrichFrom(1, acc.kept, resp, 0)
                 IN /\ decisions' = acc.decisions
                    /\ seenMem' = acc.seenArr
                    /\ deployCountFile' = IF o.countsWrite
                                          THEN saveDeployCounts(counts)
                                          ELSE deployCountFile
                    /\ fetchedPairs' = fetchedPairs \cup Pairs(fetched)
                    /\ IF o.seenWrite
                       THEN /\ newLaunches' =
                                 [i \in 1..Len(filled) |->
                                     Enriched(filled[i], counts, w, env)]
                            /\ seenFile' = saveSeen(acc.seenArr, env)
                            /\ added' = added \o acc.pushed
                            /\ cycleResult' = "returned"
                       ELSE /\ newLaunches' = <<>>
                            /\ cycleResult' = "saveSeenThrew"
                            /\ UNCHANGED <<seenFile, added>>

Cycle(fetched) == CycleIO(fetched, AllOk)

RunNotifyCycle ==
    /\ pc = "idle"
    /\ cycles < MaxCycles
    /\ \E provider \in Providers, raw \in Batches(CycleItems) :
          Cycle(fetchLaunches(provider, raw))
    /\ pc' = "deliver"
    /\ cycles' = cycles + 1
    /\ UNCHANGED <<env, watchEnv, watchFile, sent, alerted>>
    /\ UNCHANGED watchOpVars
    /\ UNCHANGED extraVars

\* The delivery loop over the cycle's result.  The delivery settings are
\* process environment that the cycle never reads, so the loop's output is
\* recorded for each of them.
Deliver ==
    /\ pc = "deliver"
    /\ sent' = [d \in DeliveryConfigs |-> SendAll(newLaunches, d)]
    /\ pc' = "delivered"
    /\ UNCHANGED <<env, watchEnv, watchFile, seenFile, deployCountFile,
                   launches, seenMem, newLaunches, decisions, cycles, alerted,
                   added, countsBefore, fetchedPairs, seenBefore, io,
                   cycleResult>>
    /\ UNCHANGED watchOpVars
    /\ UNCHANGED extraVars

\* The handler returns: its locals are gone
Finish ==
    /\ pc = "delivered"
    /\ pc' = "idle"
    /\ alerted' = alerted \cup {Key(newLaunches[i].launch) : i \in DOMAIN newLaunches}
    /\ launches' = <<>>
    /\ seenMem' = <<>>
    /\ newLaunches' = <<>>
    /\ decisions' = <<>>
    /\ sent' = NothingSent
    /\ countsBefore' = EmptyCounts
    /\ seenBefore' = <<>>
    /\ io' = AllOk
    /\ cycleResult' = "none"
    /\ UNCHANGED <<env, watchEnv, watchFile, seenFile, deployCountFile,
                   cycles, added, fetchedPairs>>
    /\ UNCHANGED watchOpVars
    /\ UNCHANGED extraVars

Next == RunNotifyCycle \/ Deliver \/ Finish

Spec == Init /\ [][Next]_vars

-----------------------------------------------------------------------------
(* A second specification: one cycle over one launch, with the launch, the
   watch list and the filter settings drawn from wider sets, for the
   properties of isWatchMatch and passesFilters *)

XHandles == {Null, <<"b","o","b">>, <<"@","B","o","b">>, <<"a","l">>}
FeeXHandles == {Null, <<"B","o","b">>, <<"a","l">>}
FcHandles == {Null, <<" ","C","a","z">>}
FeeFcHandles == {Null, <<"c","a","z">>}
Launchers == {Null, Addr("d"), Addr("D")}
Names == {<<"M","o","o","n">>, <<"S","u","n">>}

MatchBeneficiaries ==
    {<<>>} \cup {<<Ben(Addr("e"), fx, ffc)>> : fx \in FeeXHandles,
                                               ffc \in FeeFcHandles}

MatchLaunches ==
    {Launch(n, <<"T">>, Addr("a"), la, lx, lfc, bens) :
        n \in Names, la \in Launchers, lx \in XHandles, lfc \in FcHandles,
        bens \in MatchBeneficiaries}

MatchWatchFiles ==
    {EmptyWatch,
     [EmptyWatch EXCEPT !.x = <<<<"b","o","b">>>>],
     [EmptyWatch EXCEPT !.fc = <<<<"c","a","z">>>>],
     [EmptyWatch EXCEPT !.wallet = <<Addr("d")>>],
     [EmptyWatch EXCEPT !.wallet = <<Addr("e")>>],
     [EmptyWatch EXCEPT !.keywords = <<<<"M","o","o","N">>>>]}

MatchEnvs ==
    [SEEN_MAX_KEYS : {Unset},
     FILTER_X_MATCH : BOOLEAN,
     FILTER_MAX_DEPLOYS : {Unset, 0, 1}]

\* the launcher has deployed one other token before
OneEarlierDeploy == [a \in {Addr("d")} |-> {Addr("f")}]

InitMatch ==
    /\ env \in MatchEnvs
    /\ watchEnv = EmptyWatch
    /\ watchFile \in MatchWatchFiles
    /\ seenFile = <<>>
    /\ deployCountFile \in {EmptyCounts, OneEarlierDeploy}
    /\ pc = "idle"
    /\ launches = <<>>
    /\ seenMem = <<>>
    /\ newLaunches = <<>>
    /\ decisions = <<>>
    /\ sent = NothingSent
    /\ cycles = 0
    /\ alerted = {}
    /\ added = <<>>
    /\ countsBefore = EmptyCounts
    /\ fetchedPairs = {}
    /\ seenBefore = <<>>
    /\ io = AllOk
    /\ cycleResult = "none"
    /\ tenants = NoTenants
    /\ lastOp = NoOp
    /\ ops = 0
    /\ InitExtra

MatchCycle ==
    /\ pc = "idle"
    /\ cycles = 0
    /\ \E l \in MatchLaunches : Cycle(<<l>>)
    /\ pc' = "deliver"
    /\ cycles' = cycles + 1
    /\ UNCHANGED <<env, watchEnv, watchFile, sent, alerted>>
    /\ UNCHANGED watchOpVars
    /\ UNCHANGED extraVars

NextMatch == MatchCycle

SpecMatch == InitMatch /\ [][NextMatch]_vars

-----------------------------------------------------------------------------
(* Properties of the cycle and of delivery (specification Spec) *)

WatchNow == getWatchList(watchEnv, watchFile)

CycleDone == pc \in {"deliver", "delivered"}

NewKeys == {Key(newLaunches[i].launch) : i \in DOMAIN newLaunches}

\* C1: an item that a cycle returned as new is never returned as new by a
\* later cycle, whatever SEEN_MAX_KEYS is.
C1_NeverReAlert ==
    CycleDone => \A i \in DOMAIN newLaunches :
                    Key(newLaunches[i].launch) \notin alerted

\* C2: every fetched item that passed the duplicate check is marked seen by
\* the end of its cycle, so that a second run on the same batch and state
\* finds every item a duplicate.
C2_ProcessedIsMarkedSeen ==
    CycleDone => \A i \in DOMAIN launches :
                    decisions[i].outcome /= "Duplicate"
                        => Key(launches[i]) \in Range(seenFile)

\* C3: every non-duplicate item on the watch list is included in the cycle's
\* result, and every item of the result that is a watch match is sent to the
\* watch channel of the bot when one is configured, whatever FILTER_X_MATCH
\* and FILTER_MAX_DEPLOYS are.
C3_WatchlistBypass ==
    /\ CycleDone =>
         \A i \in DOMAIN launches :
            (decisions[i].outcome /= "Duplicate"
                /\ isWatchMatch(launches[i], WatchNow))
              => /\ decisions[i].outcome = "New"
                 /\ Key(launches[i]) \in NewKeys
    /\ pc = "delivered" =>
         \A d \in DeliveryConfigs : \A i \in DOMAIN newLaunches :
            (d.watch /= NoChannel /\ newLaunches[i].isWatchMatch)
              => Msg(d.watch, newLaunches[i]) \in Range(sent[d])

\* C3 witness: a watch match with no fee recipient and a deployer over the
\* max-deploy threshold, failing both filters, has been delivered.
C3_Witness ==
    /\ pc = "delivered"
    /\ env.FILTER_X_MATCH
    /\ env.FILTER_MAX_DEPLOYS = 1
    /\ \E i \in DOMAIN newLaunches, d \in DeliveryConfigs :
          /\ newLaunches[i].isWatchMatch
          /\ ~newLaunches[i].passedFilters
          /\ newLaunches[i].launch.beneficiaries = <<>>
          /\ newLaunches[i].deployCount > env.FILTER_MAX_DEPLOYS
          /\ d.mode = "botV2" /\ d.watch = "chW" /\ d.alert = "chA"
          /\ Msg("chW", newLaunches[i]) \in Range(sent[d])
          /\ Msg("chA", newLaunches[i]) \notin Range(sent[d])

\* C4: a new item that is neither a watch match nor passes the general filter
\* is sent to no surface at all, with or without a watch list.
C4_SuppressedIsSentNowhere ==
    pc = "delivered" =>
       \A d \in DeliveryConfigs : \A i \in DOMAIN newLaunches :
          (~newLaunches[i].isWatchMatch /\ ~newLaunches[i].passedFilters)
            => \A m \in Range(sent[d]) :
                  m.token /= newLaunches[i].launch.tokenAddress

Min(a, b) == IF a < b THEN a ELSE b

\* C5: with SEEN_MAX_KEYS = k > 0 the seen array in memory and in the file
\* never holds more than k keys, and the file holds exactly the last
\* min(k, N) of the N keys added so far, in the order they were added.
C5_EvictionBoundFifo ==
    SeenBounded(env) =>
       /\ Len(seenMem) <= env.SEEN_MAX_KEYS
       /\ Len(seenFile) <= env.SEEN_MAX_KEYS
       /\ seenFile = SliceLast(added, Min(env.SEEN_MAX_KEYS, Len(added)))

\* C5 witness: k = 2 and three distinct keys A, B, C added in one cycle from
\* an empty seen file; the file holds exactly B, C.
C5_Witness ==
    /\ env.SEEN_MAX_KEYS = 2
    /\ cycles = 1
    /\ pc = "deliver"
    /\ Len(added) = 3
    /\ Cardinality(Range(added)) = 3
    /\ seenFile = <<added[2], added[3]>>
    /\ seenMem = seenFile

\* C6: of the occurrences of one token address (compared without case) in a
\* fetched batch, at most one is returned as new by the cycle.
C6_OneDecisionPerItem ==
    CycleDone => \A i, j \in DOMAIN newLaunches :
                    Key(newLaunches[i].launch) = Key(newLaunches[j].launch)
                        => i = j

TokensOf(a) == {p[2] : p \in {q \in fetchedPairs : q[1] = a}}

CountBefore(a) ==
    IF a \in DOMAIN countsBefore THEN Cardinality(countsBefore[a]) ELSE 0

GeneralSurfaces(d) == {"webhook"} \cup ({d.alert} \ {NoChannel})

\* C7: the deploy counter of a launcher is the number of distinct token
\* addresses fetched with that launcher, whatever was decided about them; and
\* with FILTER_MAX_DEPLOYS = 1 a further token of a launcher whose count was
\* already 1, not on the watch list, raises the count to 2 or more and is not
\* sent to the general feed (webhook, alert channel).
C7_AttributionAndSuppression ==
    /\ DOMAIN deployCountFile = {p[1] : p \in fetchedPairs}
    /\ \A a \in DOMAIN deployCountFile : deployCountFile[a] = TokensOf(a)
    /\ (pc = "delivered" /\ env.FILTER_MAX_DEPLOYS = 1) =>
         \A i \in DOMAIN launches :
            LET l == launches[i]
                a == toLowerCase(l.launcher)
            IN (/\ Truthy(l.launcher)
                /\ CountBefore(a) = 1
                /\ toLowerCase(l.tokenAddress) \notin countsBefore[a]
                /\ decisions[i].outcome /= "Duplicate"
                /\ ~isWatchMatch(l, WatchNow))
               => /\ Cardinality(deployCountFile[a]) >= 2
                  /\ \A d \in DeliveryConfigs : \A m \in Range(sent[d]) :
                        ~(m.token = l.tokenAddress
                            /\ m.to \in GeneralSurfaces(d))

BatchTokensOf(a) ==
    {toLowerCase(launches[j].tokenAddress) :
        j \in {k \in DOMAIN launches : toLowerCase(launches[k].launcher) = a}}

TokensBefore(a) == IF a \in DOMAIN countsBefore THEN countsBefore[a] ELSE {}

\* C8: the deploy count read when an item is filtered includes every item of
\* the same batch by the same launcher, those after it too; so the max-count
\* check fails for every item of a launcher whose whole batch is over the
\* limit.
C8_AttributionPrecedesFiltering ==
    CycleDone =>
       \A i \in DOMAIN launches :
          LET a     == toLowerCase(launches[i].launcher)
              whole == Cardinality(TokensBefore(a) \cup BatchTokensOf(a))
          IN (decisions[i].outcome /= "Duplicate" /\ Truthy(launches[i].launcher))
             => /\ decisions[i].count = whole
                /\ (env.FILTER_MAX_DEPLOYS /= Unset
                      /\ env.FILTER_MAX_DEPLOYS > 0
                      /\ whole > env.FILTER_MAX_DEPLOYS)
                     => ~decisions[i].passes

\* C8 witness: FILTER_MAX_DEPLOYS = 1, no earlier deploys, and two new tokens
\* of one launcher in the first batch: both fail the max-count check.
C8_Witness ==
    /\ pc = "deliver"
    /\ cycles = 1
    /\ env.FILTER_MAX_DEPLOYS = 1
    /\ ~env.FILTER_X_MATCH
    /\ \E i, j \in DOMAIN launches :
          /\ i < j
          /\ Truthy(launches[i].launcher)
          /\ toLowerCase(launches[i].launcher) = toLowerCase(launches[j].launcher)
          /\ Key(launches[i]) /= Key(launches[j])
          /\ decisions[i].outcome /= "Duplicate"
          /\ decisions[j].outcome /= "Duplicate"
          /\ decisions[i].count = 2
          /\ ~decisions[i].passes
          /\ ~decisions[j].passes

-----------------------------------------------------------------------------
(* Properties of isWatchMatch and passesFilters (specification SpecMatch) *)

\* the fee recipient is the first beneficiary
HasFee(l) == Len(l.beneficiaries) > 0

HandlesX(l) ==
    ({normX(l.launcherX)}
        \cup (IF HasFee(l) THEN {normX(l.beneficiaries[1].xUsername)} ELSE {}))
      \ {Null}

HandlesFc(l) ==
    ({normHandle(l.launcherFarcaster)}
        \cup (IF HasFee(l) THEN {normHandle(l.beneficiaries[1].farcaster)}
              ELSE {}))
      \ {Null}

Wallets(l) ==
    ({toLowerCase(l.launcher)}
        \cup {toLowerCase(l.beneficiaries[i].beneficiary) :
                 i \in DOMAIN l.beneficiaries})
      \ {Null}

\* C9: isWatchMatch is true exactly when the X handle of the deployer or of
\* the fee recipient is watched, or the Farcaster handle of either is watched,
\* or the lowercased wallet of the deployer or of a fee recipient is watched,
\* or a watch keyword is a substring of the lowercased name and symbol.
C9_WatchMatchExactly ==
    pc = "deliver" =>
       \A i \in DOMAIN newLaunches :
          LET l == newLaunches[i].launch
          IN newLaunches[i].isWatchMatch
               <=> \/ HandlesX(l) \cap WatchNow.x /= {}
                   \/ HandlesFc(l) \cap WatchNow.fc /= {}
                   \/ Wallets(l) \cap WatchNow.wallet /= {}
                   \/ \E kw \in WatchNow.keywords :
                         includes(toLowerCase(l.name \o <<" ">> \o l.symbol),
                                  toLowerCase(kw))

SharedX(l) ==
    /\ Truthy(l.launcherX)
    /\ HasFee(l)
    /\ Truthy(l.beneficiaries[1].xUsername)
    /\ normX(l.launcherX) = normX(l.beneficiaries[1].xUsername)

SharedFc(l) ==
    /\ Truthy(l.launcherFarcaster)
    /\ HasFee(l)
    /\ Truthy(l.beneficiaries[1].farcaster)
    /\ normHandle(l.launcherFarcaster) = normHandle(l.beneficiaries[1].farcaster)

SharedIdentityOk(l) == env.FILTER_X_MATCH => (SharedX(l) \/ SharedFc(l))

\* C10: an item passes the general filter exactly when the shared-identity
\* check and the max-count check both hold; with FILTER_X_MATCH on the first
\* needs deployer and fee recipient to have equal normalized X handles or
\* equal normalized Farcaster handles, both present, and with it off the
\* first holds for every item.
C10_SharedIdentityFilter ==
    pc = "deliver" =>
       /\ \A i \in DOMAIN launches :
             decisions[i].outcome /= "Duplicate" =>
                (decisions[i].passes
                   <=> /\ SharedIdentityOk(launches[i])
                       /\ MaxDeploysCheck(launches[i], deployCountFile, env))
       /\ \A i \in DOMAIN newLaunches :
             newLaunches[i].passedFilters
                <=> /\ SharedIdentityOk(newLaunches[i].launch)
                    /\ MaxDeploysCheck(newLaunches[i].launch, deployCountFile, env)

\* C10 witness: FILTER_X_MATCH is on, the X handles differ, the Farcaster
\* handles are equal after normalization, and the item passes.
C10_Witness ==
    /\ pc = "deliver"
    /\ env.FILTER_X_MATCH
    /\ \E i \in DOMAIN newLaunches :
          LET l == newLaunches[i].launch
          IN /\ newLaunches[i].passedFilters
             /\ ~SharedX(l)
             /\ Truthy(l.launcherX)
             /\ l.launcherFarcaster /= l.beneficiaries[1].farcaster
             /\ SharedFc(l)

\* C11: whenever FILTER_MAX_DEPLOYS is set to an integer, 0 included, an item
\* passes the max-count check exactly when the deploy count of its launcher
\* is at most that integer; an item without launcher always passes it.
C11_MaxCountFilter ==
    pc = "deliver" =>
       \A i \in DOMAIN launches :
          (decisions[i].outcome /= "Duplicate" /\ ~env.FILTER_X_MATCH)
            => (decisions[i].passes
                  <=> \/ env.FILTER_MAX_DEPLOYS = Unset
                      \/ ~Truthy(launches[i].launcher)
                      \/ DeployCount(launches[i], deployCountFile)
                            <= env.FILTER_MAX_DEPLOYS)

LowerAddrs(l) ==
    [l EXCEPT !.tokenAddress = toLowerCase(@),
              !.launcher = toLowerCase(@),
              !.beneficiaries =
                  [i \in DOMAIN @ |->
                      [@[i] EXCEPT !.beneficiary = toLowerCase(@)]]]

LowerBatch(ls) == [i \in DOMAIN ls |-> LowerAddrs(ls[i])]

IsLower(a) == a = toLowerCase(a)

-----------------------------------------------------------------------------
(* The watch-list operations of watch-store.js and tenant-store.js *)

\* UTF-16 code unit order of the characters used, for Array.prototype.sort
CodeOrder ==
    <<" ", "0", "1", "2", "3", "4", "5", "6", "7", "8", "9", "@">>
      \o UpperChars \o LowerChars

CodeOf ==
    [c \in Range(CodeOrder) |->
        CHOOSE i \in DOMAIN CodeOrder : CodeOrder[i] = c]

RECURSIVE StrLess(_, _)
StrLess(a, b) ==
    IF b = <<>> THEN FALSE
    ELSE IF a = <<>> THEN TRUE
    ELSE IF Head(a) = Head(b) THEN StrLess(Tail(a), Tail(b))
    ELSE CodeOf[Head(a)] < CodeOf[Head(b)]

\* a.localeCompare(b, undefined, { sensitivity: "base" }) < 0, for keywords
\* made of letters, digits and spaces
BaseLess(a, b) == StrLess(toLowerCase(a), toLowerCase(b))

RECURSIVE Insert(_, _)
Insert(v, sorted) ==
    IF sorted = <<>> THEN <<v>>
    ELSE IF StrLess(v, Head(sorted)) THEN <<v>> \o sorted
    ELSE <<Head(sorted)>> \o Insert(v, Tail(sorted))

\* list.sort()
NoSort(list) == list

RECURSIVE Sort(_)
Sort(list) ==
    IF list = <<>> THEN <<>>
    ELSE Insert(list[Len(list)], Sort(SubSeq(list, 1, Len(list) - 1)))

RECURSIVE InsertBase(_, _)
InsertBase(v, sorted) ==
    IF sorted = <<>> THEN <<v>>
    ELSE IF BaseLess(v, Head(sorted)) THEN <<v>> \o sorted
    ELSE <<Head(sorted)>> \o InsertBase(v, Tail(sorted))

\* list.sort((a, b) => a.localeCompare(b, undefined, { sensitivity: "base" }))
RECURSIVE SortBase(_)
SortBase(list) ==
    IF list = <<>> THEN <<>>
    ELSE InsertBase(list[Len(list)], SortBase(SubSeq(list, 1, Len(list) - 1)))

\* list.filter((x) => x !== v)
RECURSIVE Without(_, _)
Without(list, v) ==
    IF list = <<>> THEN <<>>
    ELSE IF Head(list) = v THEN Without(Tail(list), v)
    ELSE <<Head(list)>> \o Without(Tail(list), v)

\* list.filter((w) => w.toLowerCase() !== kLower)
RECURSIVE WithoutLower(_, _)
WithoutLower(list, kLower) ==
    IF list = <<>> THEN <<>>
    ELSE IF toLowerCase(Head(list)) = kLower
    THEN WithoutLower(Tail(list), kLower)
    ELSE <<Head(list)>> \o WithoutLower(Tail(list), kLower)

Done(ret, raw) == [ret |-> ret, raw |-> raw]

\* The push / sort / save part shared by addX, addFc and addWallet, for the
\* parsed value h of the list `axis`
AddParsedAlways(raw, axis, h) ==
    IF ~Truthy(h) THEN Done(FALSE, raw)
    ELSE Done(TRUE, [raw EXCEPT ![axis] = Sort(Append(@, h))])

AddParsed(raw, axis, h) ==
    IF ~Truthy(h) THEN Done(FALSE, raw)
    ELSE IF h \in Range(raw[axis]) THEN Done(TRUE, raw)
    ELSE Done(TRUE, [raw EXCEPT ![axis] = Sort(Append(@, h))])

\* The filter / save part shared by removeX, removeFc and removeWallet
RemoveParsed(raw, axis, h) ==
    IF ~Truthy(h) THEN Done(FALSE, raw)
    ELSE Done(TRUE, [raw EXCEPT ![axis] = Without(@, h)])

addX(raw, handle) == AddParsed(raw, "x", parseHandle(handle, TRUE))

removeX(raw, handle) == RemoveParsed(raw, "x", parseHandle(handle, TRUE))

addFc(raw, handle) == AddParsed(raw, "fc", parseHandle(handle, FALSE))

removeFc(raw, handle) == RemoveParsed(raw, "fc", parseHandle(handle, FALSE))

addWallet(raw, addr) == AddParsed(raw, "wallet", parseWallet(addr))

removeWallet(raw, addr) == RemoveParsed(raw, "wallet", parseWallet(addr))

addKeyword(raw, keyword) ==
    LET k == parseKeyword(keyword)
    IN IF ~Truthy(k) THEN Done(FALSE, raw)
       ELSE IF \E i \in DOMAIN raw.keywords :
                  toLowerCase(raw.keywords[i]) = toLowerCase(k)
       THEN Done(TRUE, raw)
       ELSE Done(TRUE, [raw EXCEPT !.keywords = SortBase(Append(@, k))])

removeKeyword(raw, keyword) ==
    LET k == parseKeyword(keyword)
    IN IF ~Truthy(k) THEN Done(FALSE, raw)
       ELSE Done(TRUE, [raw EXCEPT !.keywords = WithoutLower(@, toLowerCase(k))])

\* const normalized = (v) => v.trim().toLowerCase()  (tenant-store.js:125)
normalized(v) == toLowerCase(trim(v))

\* list.splice(i, 1)
Splice(list, i) == SubSeq(list, 1, i - 1) \o SubSeq(list, i + 1, Len(list))

\* updateWatchListForGuild on the tenant's watchlist w (tenant-store.js:121-139)
updateWatchListForGuild(w, type, value, add) ==
    LET list == w[type]
        val  == normalized(value)
    IN IF ~Truthy(val) THEN Done(FALSE, w)
       ELSE IF add
       THEN IF val \in Range(list) THEN Done(TRUE, w)
            ELSE Done(TRUE, [w EXCEPT ![type] = Sort(Append(list, val))])
       ELSE LET found == {i \in DOMAIN list : normalized(list[i]) = val}
            IN IF found = {} THEN Done(FALSE, w)
               ELSE Done(TRUE,
                         [w EXCEPT ![type] =
                             Splice(list, CHOOSE i \in found :
                                             \A j \in found : i <= j)])

\* getWatchListForGuild: the tenant's lists as sets (tenant-store.js:103-112)
getWatchListForGuild(ts, g) ==
    [x        |-> Range(ts[g].x),
     fc       |-> Range(ts[g].fc),
     wallet   |-> Range(ts[g].wallet),
     keywords |-> Range(ts[g].keywords)]

-----------------------------------------------------------------------------
(* A third specification: the watch-list operations, called in any order
   with valid and invalid values *)

HandleInputs ==
    {<<"@","B","o","b">>, <<"b","o","b">>, <<"a","l">>, <<"@">>}

NotAnAddress == <<"0", "x">> \o [i \in 1..AddrHexLen |-> "z"]

WalletInputs == {Addr("d"), Addr("D"), NotAnAddress}

KeywordInputs == {<<"M","o","o","n">>, <<"m","o","o","n">>, <<"S","u","n">>,
                  <<" ">>}

Axes == {"x", "fc", "wallet", "keywords"}

InputsOf(axis) ==
    CASE axis = "x" -> HandleInputs
      [] axis = "fc" -> HandleInputs
      [] axis = "wallet" -> WalletInputs
      [] axis = "keywords" -> KeywordInputs

\* WATCH_X_USERS, WATCH_FC_USERS, WATCH_WALLETS, WATCH_KEYWORDS after split(",")
SeededEnv ==
    [x |-> <<<<"@","B","o","b">>>>, fc |-> <<<<"a","l">>>>,
     wallet |-> <<Addr("D")>>, keywords |-> <<<<"M","o","o","n">>>>]

DefaultEnv ==
    [SEEN_MAX_KEYS |-> Unset, FILTER_X_MATCH |-> FALSE,
     FILTER_MAX_DEPLOYS |-> Unset]

InitWatch ==
    /\ env = DefaultEnv
    /\ watchEnv \in {EmptyWatch, SeededEnv}
    /\ watchFile = EmptyWatch
    /\ seenFile = <<>>
    /\ deployCountFile = EmptyCounts
    /\ pc = "idle"
    /\ launches = <<>>
    /\ seenMem = <<>>
    /\ newLaunches = <<>>
    /\ decisions = <<>>
    /\ sent = NothingSent
    /\ cycles = 0
    /\ alerted = {}
    /\ added = <<>>
    /\ countsBefore = EmptyCounts
    /\ fetchedPairs = {}
    /\ seenBefore = <<>>
    /\ io = AllOk
    /\ cycleResult = "none"
    /\ tenants = NoTenants
    /\ lastOp = NoOp
    /\ ops = 0
    /\ InitExtra

cycleVars == <<env, watchEnv, seenFile, deployCountFile, pc, launches, seenMem,
               newLaunches, decisions, sent, cycles, alerted, added,
               countsBefore, fetchedPairs, seenBefore, io, cycleResult>>

\* One call of a watch-store.js operation with result `r`
GlobalOp(kind, axis, value, r) ==
    /\ ops < MaxOps
    /\ watchFile' = r.raw
    /\ lastOp' = [kind |-> kind, store |-> "global", axis |-> axis,
                  value |-> value, ret |-> r.ret, before |-> watchFile]
    /\ ops' = ops + 1
    /\ UNCHANGED tenants
    /\ UNCHANGED cycleVars
    /\ UNCHANGED extraVars

AddX == \E v \in HandleInputs : GlobalOp("add", "x", v, addX(watchFile, v))

RemoveX ==
    \E v \in HandleInputs : GlobalOp("remove", "x", v, removeX(watchFile, v))

AddFc == \E v \in HandleInputs : GlobalOp("add", "fc", v, addFc(watchFile, v))

RemoveFc ==
    \E v \in HandleInputs : GlobalOp("remove", "fc", v, removeFc(watchFile, v))

AddWallet ==
    \E v \in WalletInputs :
        GlobalOp("add", "wallet", v, addWallet(watchFile, v))

RemoveWallet ==
    \E v \in WalletInputs :
        GlobalOp("remove", "wallet", v, removeWallet(watchFile, v))

AddKeyword ==
    \E v \in KeywordInputs :
        GlobalOp("add", "keywords", v, addKeyword(watchFile, v))

RemoveKeyword ==
    \E v \in KeywordInputs :
        GlobalOp("remove", "keywords", v, removeKeyword(watchFile, v))

UpdateWatchListForGuild ==
    \E g \in Guilds, type \in Axes, add \in BOOLEAN :
      \E v \in InputsOf(type) :
        LET r == updateWatchListForGuild(tenants[g], type, v, add)
        IN /\ ops < MaxOps
           /\ tenants' = [tenants EXCEPT ![g] = r.raw]
           /\ lastOp' = [kind |-> IF add THEN "add" ELSE "remove",
                         store |-> g, axis |-> type, value |-> v,
                         ret |-> r.ret, before |-> tenants[g]]
           /\ ops' = ops + 1
           /\ UNCHANGED watchFile
           /\ UNCHANGED cycleVars
           /\ UNCHANGED extraVars

NextWatch ==
    \/ AddX \/ RemoveX \/ AddFc \/ RemoveFc
    \/ AddWallet \/ RemoveWallet \/ AddKeyword \/ RemoveKeyword
    \/ UpdateWatchListForGuild

SpecWatch == InitWatch /\ [][NextWatch]_vars

-----------------------------------------------------------------------------
(* Properties of the watch-list operations (specification SpecWatch) *)

\* the registry the last operation worked on, as it is now
StoreNow == IF lastOp.store = "global" THEN watchFile ELSE tenants[lastOp.store]

WellFormedWallet(a) == isAddress(a) /\ IsLower(a)

\* C13: adding a wallet value that is not 0x followed by the hex digits of an
\* address returns false and changes nothing, and every wallet entry of the
\* global registry and of every tenant registry is such an address in lower
\* case.
C13_InvalidWalletNeverStored ==
    /\ (lastOp.kind = "add" /\ lastOp.axis = "wallet"
          /\ ~isAddress(trim(lastOp.value)))
         => (~lastOp.ret /\ StoreNow = lastOp.before)
    /\ \A a \in Range(watchFile.wallet) : WellFormedWallet(a)
    /\ \A g \in Guilds : \A a \in Range(tenants[g].wallet) : WellFormedWallet(a)

\* the value an add or remove works with after parsing, Null when invalid
ParsedValue(store, axis, v) ==
    IF store /= "global" THEN normalized(v)
    ELSE CASE axis = "x" -> parseHandle(v, TRUE)
           [] axis = "fc" -> parseHandle(v, FALSE)
           [] axis = "wallet" -> parseWallet(v)
           [] axis = "keywords" -> parseKeyword(v)

\* the add of `v` on axis `axis` of registry `raw`
ApplyAdd(store, axis, v, raw) ==
    IF store /= "global" THEN updateWatchListForGuild(raw, axis, v, TRUE)
    ELSE CASE axis = "x" -> addX(raw, v)
           [] axis = "fc" -> addFc(raw, v)
           [] axis = "wallet" -> addWallet(raw, v)
           [] axis = "keywords" -> addKeyword(raw, v)

NoRepeat(list) ==
    \A i, j \in DOMAIN list : toLowerCase(list[i]) = toLowerCase(list[j]) => i = j

NoExactRepeat(list) == \A i, j \in DOMAIN list : list[i] = list[j] => i = j

\* C14: on every axis of both stores, adding a valid value returns true,
\* adding it again returns true and leaves the registry as the first add left
\* it, and no list holds an entry twice (no keyword twice up to letter case).
C14_AddIdempotent ==
    /\ (lastOp.kind = "add"
          /\ Truthy(ParsedValue(lastOp.store, lastOp.axis, lastOp.value)))
         => /\ lastOp.ret
            /\ ApplyAdd(lastOp.store, lastOp.axis, lastOp.value, StoreNow)
                  = Done(TRUE, StoreNow)
    /\ \A axis \in Axes :
          /\ NoExactRepeat(watchFile[axis])
          /\ \A g \in Guilds : NoExactRepeat(tenants[g][axis])
    /\ NoRepeat(watchFile.keywords)
    /\ \A g \in Guilds : NoRepeat(tenants[g].keywords)

\* C14 witness: the keyword moon is added to a global registry that holds
\* Moon since an earlier add; the call returns true and the registry is as
\* it was.
C14_Witness ==
    /\ lastOp.kind = "add"
    /\ lastOp.store = "global"
    /\ lastOp.axis = "keywords"
    /\ lastOp.value = <<"m","o","o","n">>
    /\ lastOp.before.keywords = <<<<"M","o","o","n">>>>
    /\ lastOp.ret
    /\ watchFile = lastOp.before
    /\ ops >= 2

\* C15: a remove returns true only if it deleted an entry; removing a valid
\* value that is not in the registry returns false and changes nothing.
C15_RemoveTrueOnlyIfDeleted ==
    lastOp.kind = "remove" =>
       /\ lastOp.ret => StoreNow /= lastOp.before
       /\ ~lastOp.ret => StoreNow = lastOp.before

\* C16: every entry seeded by the WATCH_* environment variables is in the
\* global snapshot and in the snapshot of every tenant, whatever was removed.
C16_EnvSeedInEverySnapshot ==
    LET seeded == getFromEnv(watchEnv)
    IN \A axis \in Axes :
          /\ seeded[axis] \subseteq getWatchList(watchEnv, watchFile)[axis]
          /\ \A g \in Guilds :
                seeded[axis] \subseteq getWatchListForGuild(tenants, g)[axis]

-----------------------------------------------------------------------------
(* A fourth specification: cycles in which file reads and writes, the
   launch providers and the process itself may fail *)

\* fetchFromBankrApi: no API key; a rejected fetch or a non-OK first page;
\* no deployed launch; launches
BankrOutcomes == {"noKey", "error", "empty", "items"}

\* the indexer request: fetch rejects; HTTP status not OK; a body with
\* `errors`; no items; items
IndexerOutcomes == {"networkError", "nonOk", "graphqlErrors", "empty", "items"}

\* the chain scan: throws; returns launches
ChainOutcomes == {"fail", "items"}

\* a launch as the chain fallback maps it (notify.js:244-256)
ChainLaunch(l) ==
    [l EXCEPT !.launcher = Null, !.launcherX = Null,
              !.launcherFarcaster = Null, !.beneficiaries = <<>>]

Returned(list) == [threw |-> FALSE, list |-> list]

Thrown == [threw |-> TRUE, list |-> <<>>]

\* fetchLaunches (notify.js:192-261) for the outcomes of its three providers,
\* `raw` being what a provider that answers with launches returns.  Only the
\* chain scan is inside a try block; the indexer request is not.
fetchLaunchesWith(bankr, indexer, chain, raw) ==
    IF bankr = "items" /\ Len(BankrDedupe(raw, {})) > 0
    THEN Returned(BankrDedupe(raw, {}))
    ELSE IF indexer = "networkError" THEN Thrown
    ELSE IF indexer = "items" /\ Len(raw) > 0 THEN Returned(raw)
    ELSE IF chain = "fail" THEN Returned(<<>>)
    ELSE Returned([i \in DOMAIN raw |-> ChainLaunch(raw[i])])

IOs == [seenRead : BOOLEAN, countsRead : BOOLEAN,
        seenWrite : BOOLEAN, countsWrite : BOOLEAN]

FailItems == {L1, L3}

FailEnvs ==
    [SEEN_MAX_KEYS : {Unset},
     FILTER_X_MATCH : {FALSE},
     FILTER_MAX_DEPLOYS : {Unset, 1}]

InitFail ==
    /\ env \in FailEnvs
    /\ watchEnv = EmptyWatch
    /\ watchFile = EmptyWatch
    /\ seenFile = <<>>
    /\ deployCountFile = EmptyCounts
    /\ pc = "idle"
    /\ launches = <<>>
    /\ seenMem = <<>>
    /\ newLaunches = <<>>
    /\ decisions = <<>>
    /\ sent = NothingSent
    /\ cycles = 0
    /\ alerted = {}
    /\ added = <<>>
    /\ countsBefore = EmptyCounts
    /\ fetchedPairs = {}
    /\ seenBefore = <<>>
    /\ io = AllOk
    /\ cycleResult = "none"
    /\ tenants = NoTenants
    /\ lastOp = NoOp
    /\ ops = 0
    /\ InitExtra

\* runNotifyCycle called by main or by the bot's runNotify
RunNotifyCycleIO ==
    /\ pc = "idle"
    /\ cycles < MaxCycles
    /\ \E bankr \in BankrOutcomes, indexer \in IndexerOutcomes,
          chain \in ChainOutcomes, raw \in Batches(FailItems), o \in IOs :
          LET f == fetchLaunchesWith(bankr, indexer, chain, raw)
          IN IF f.threw
             THEN /\ cycleResult' = "fetchThrew"
                  /\ io' = o
                  /\ seenBefore' = readSeen(o.seenRead, seenFile, env)
                  /\ countsBefore' = readDeployCounts(o.countsRead, deployCountFile)
                  /\ seenMem' = seenBefore'
                  /\ UNCHANGED <<launches, newLaunches, decisions, seenFile,
                                 deployCountFile, added, fetchedPairs>>
             ELSE CycleIO(f.list, o)
    /\ pc' = IF cycleResult' = "returned" THEN "deliver" ELSE "threw"
    /\ cycles' = cycles + 1
    /\ UNCHANGED <<env, watchEnv, watchFile, sent, alerted>>
    /\ UNCHANGED watchOpVars
    /\ UNCHANGED extraVars

\* runNotifyCycle rejected: main exits with status 1 (notify.js:697-700), the
\* bot logs "Notify failed" (discord-bot.js:97-99); nothing is delivered
Abort ==
    /\ pc = "threw"
    /\ pc' = "idle"
    /\ launches' = <<>>
    /\ seenMem' = <<>>
    /\ newLaunches' = <<>>
    /\ decisions' = <<>>
    /\ countsBefore' = EmptyCounts
    /\ seenBefore' = <<>>
    /\ io' = AllOk
    /\ cycleResult' = "none"
    /\ UNCHANGED <<env, watchEnv, watchFile, seenFile, deployCountFile, sent,
                   cycles, alerted, added, fetchedPairs>>
    /\ UNCHANGED watchOpVars
    /\ UNCHANGED extraVars

\* The process dies after runNotifyCycle has returned and before the
\* delivery loop has sent anything; the next run starts from the files
Crash ==
    /\ pc = "deliver"
    /\ pc' = "idle"
    /\ launches' = <<>>
    /\ seenMem' = <<>>
    /\ newLaunches' = <<>>
    /\ decisions' = <<>>
    /\ countsBefore' = EmptyCounts
    /\ seenBefore' = <<>>
    /\ io' = AllOk
    /\ cycleResult' = "none"
    /\ UNCHANGED <<env, watchEnv, watchFile, seenFile, deployCountFile, sent,
                   cycles, alerted, added, fetchedPairs>>
    /\ UNCHANGED watchOpVars
    /\ UNCHANGED extraVars

NextFail == RunNotifyCycleIO \/ Deliver \/ Finish \/ Abort \/ Crash

SpecFail == InitFail /\ [][NextFail]_vars

-----------------------------------------------------------------------------
(* Properties of failing cycles (specification SpecFail) *)

CycleEnded == pc \in {"deliver", "threw"}

\* C17: a failed write of the seen file or of the deploy-count file does not
\* abort the cycle: runNotifyCycle still returns, with every item it decided
\* to be new.
C17_WriteFailureStillReturns ==
    (CycleEnded /\ launches /= <<>> /\ (~io.seenWrite \/ ~io.countsWrite))
      => /\ cycleResult = "returned"
         /\ \A i \in DOMAIN launches :
               decisions[i].outcome = "New" => Key(launches[i]) \in NewKeys

\* C18: a failed read of the seen file or of the deploy-count file makes the
\* cycle go on with an empty seen array / no counts and never makes it throw:
\* no fetched item is a duplicate unless the same batch holds it earlier, and
\* the counts are those of the batch alone.
C18_ReadFailureIsEmptyState ==
    (CycleEnded /\ cycleResult /= "fetchThrew") =>
       /\ ~io.seenRead =>
             /\ seenBefore = <<>>
             /\ \A i \in DOMAIN launches :
                   decisions[i].outcome = "Duplicate"
                      => \E j \in 1..(i - 1) : Key(launches[j]) = Key(launches[i])
       /\ ~io.countsRead =>
             /\ countsBefore = EmptyCounts
             /\ \A i \in DOMAIN launches :
                   (decisions[i].outcome /= "Duplicate"
                       /\ Truthy(launches[i].launcher))
                     => decisions[i].count
                          = Cardinality(BatchTokensOf(toLowerCase(launches[i].launcher)))
       /\ io.seenWrite => cycleResult = "returned"

\* C18 witness: the second cycle cannot read either file; an item that the
\* first cycle alerted and wrote to the seen file is new again, and the cycle
\* returns.
C18_Witness ==
    /\ pc = "deliver"
    /\ cycles = 2
    /\ ~io.seenRead
    /\ ~io.countsRead
    /\ cycleResult = "returned"
    /\ Len(launches) = 1
    /\ Key(launches[1]) \in alerted
    /\ Key(launches[1]) \in Range(added)
    /\ decisions[1].outcome = "New"
    /\ decisions[1].count = 1
    /\ Cardinality(TokensOf(toLowerCase(launches[1].launcher))) = 2

\* C19: fetchLaunches never throws, whatever its providers do: the cycle
\* never ends with an exception of the fetch.
C19_FetchNeverThrows == cycleResult /= "fetchThrew"

\* C20: between cycles, every key in the seen file belongs to an item that
\* was handed to the delivery loop, so that a run after a crash delivers what
\* the interrupted run did not.
C20_SeenOnlyAfterDelivery == pc = "idle" => Range(seenFile) \subseteq alerted

-----------------------------------------------------------------------------
(* The bot's scheduler (discord-bot.js:432-435, part_007:433-436):
   setInterval calls runNotify every INTERVAL and once more at start, and
   never looks at whether an earlier call has returned.  Each call holds
   its own locals; the files are shared.  runNotifyCycle awaits between
   loadSeen (notify.js:562) and saveSeen (670), so another call can run in
   between. *)

BotEnv == [SEEN_MAX_KEYS |-> Unset, FILTER_X_MATCH |-> FALSE,
           FILTER_MAX_DEPLOYS |-> Unset]

InitBot ==
    /\ env = BotEnv
    /\ watchEnv = EmptyWatch
    /\ watchFile = EmptyWatch
    /\ seenFile = <<>>
    /\ deployCountFile = EmptyCounts
    /\ pc = "idle"
    /\ launches = <<>>
    /\ seenMem = <<>>
    /\ newLaunches = <<>>
    /\ decisions = <<>>
    /\ sent = NothingSent
    /\ cycles = 0
    /\ alerted = {}
    /\ added = <<>>
    /\ countsBefore = EmptyCounts
    /\ fetchedPairs = {}
    /\ seenBefore = <<>>
    /\ io = AllOk
    /\ cycleResult = "none"
    /\ tenants = NoTenants
    /\ lastOp = NoOp
    /\ ops = 0
    /\ InitExtra

botFrame == <<env, watchEnv, watchFile, pc, launches, seenMem, newLaunches,
              decisions, sent, alerted, added, countsBefore, fetchedPairs,
              seenBefore, io, cycleResult, tenants, lastOp, ops, failing, channels, pending,
              adapter, scan, loop, boot, tstore, lookup, enrich>>

\* The timer fires (or the ready handler makes its first call): runNotify
\* starts runNotifyCycle, which loads the seen file into its seenArr
TimerFires(r) ==
    /\ runs[r].pc = "idle"
    /\ \A q \in 1..(r - 1) : runs[q].pc /= "idle"
    /\ runs' = [runs EXCEPT ![r] = [@ EXCEPT !.pc = "loaded",
                                             !.seenArr = loadSeen(seenFile, env)]]
    /\ cycles' = cycles + 1
    /\ UNCHANGED <<seenFile, deployCountFile>>
    /\ UNCHANGED botFrame

\* The rest of runNotifyCycle for the call r: fetch, filter against the
\* seenArr it loaded, saveSeen(seenArr), return the new launches
CycleReturns(r) ==
    /\ runs[r].pc = "loaded"
    /\ \E fetched \in Batches(FailItems) \ {<<>>} :
         LET counts0 == loadDeployCounts(deployCountFile)
             acc == FilterFrom(1, fetched,
                       [seenArr |-> runs[r].seenArr, kept |-> <<>>,
                        pushed |-> <<>>, decisions |-> <<>>],
                       counts0, env, FALSE)
         IN /\ runs' = [runs EXCEPT ![r] =
                          [@ EXCEPT !.pc = "returned", !.seenArr = acc.seenArr,
                                    !.newLaunches = acc.kept]]
            /\ seenFile' = saveSeen(acc.seenArr, env)
            /\ deployCountFile' = saveDeployCounts(AttributeAll(counts0, fetched))
    /\ UNCHANGED cycles
    /\ UNCHANGED botFrame

\* The delivery loop of the call r, and its return
BotDelivers(r) ==
    /\ runs[r].pc = "returned"
    /\ runs' = [runs EXCEPT ![r] =
                  [@ EXCEPT !.pc = "done",
                            !.delivered =
                                [i \in DOMAIN runs[r].newLaunches |->
                                    Key(runs[r].newLaunches[i])]]]
    /\ UNCHANGED <<seenFile, deployCountFile, cycles>>
    /\ UNCHANGED botFrame

NextBot == \E r \in 1..MaxRuns : TimerFires(r) \/ CycleReturns(r) \/ BotDelivers(r)

SpecBot == InitBot /\ [][NextBot]_vars

-----------------------------------------------------------------------------
(* Properties of the bot's scheduler (specification SpecBot) *)

InFlight == {r \in 1..MaxRuns : runs[r].pc \in {"loaded", "returned"}}

DeliveredBy(r) == Range(runs[r].delivered)

\* C21: at most one notify cycle is in flight at any time (the timer never
\* starts runNotifyCycle while an earlier call has not finished its cycle
\* and its deliveries), and so no item is delivered by two cycles that read
\* the same seen file.
C21_OneCycleInFlight ==
    /\ Cardinality(InFlight) <= 1
    /\ \A r, q \in 1..MaxRuns : r /= q => DeliveredBy(r) \cap DeliveredBy(q) = {}

-----------------------------------------------------------------------------
(* Delivery when a channel's send() rejects.  The first runNotify of
   discord-bot.js (83-99) sends inside one try block that spans the whole
   loop; the second (386-403) and the one of part_007 (374-404) wrap every
   channel send in a try block of its own.  sendTelegram catches its own
   errors (notify.js:534-550). *)

SendConfigs ==
    {d \in [mode : {"botV1", "botV1Guarded", "botV2"}, webhook : {FALSE},
            telegram : BOOLEAN, alert : {NoChannel, "chA"},
            watch : {NoChannel, "chA", "chW"}] :
        d.alert /= NoChannel \/ d.watch /= NoChannel}

\* the sends the loop makes, in order, when none rejects
Attempts(ns, d) ==
    SendAll(ns, IF d.mode = "botV1Guarded" THEN [d EXCEPT !.mode = "botV1"]
                ELSE d)

Rejects(m, bad) == bad /= NoChannel /\ m.to = bad

\* every send in its own try block: a rejected send is logged and skipped
RECURSIVE SendGuarded(_, _)
SendGuarded(ms, bad) ==
    IF ms = <<>> THEN <<>>
    ELSE IF Rejects(Head(ms), bad) THEN SendGuarded(Tail(ms), bad)
    ELSE <<Head(ms)>> \o SendGuarded(Tail(ms), bad)

\* one try block around the loop: the first rejected send ends the loop
RECURSIVE SendUnguarded(_, _)
SendUnguarded(ms, bad) ==
    IF ms = <<>> \/ Rejects(Head(ms), bad) THEN <<>>
    ELSE <<Head(ms)>> \o SendUnguarded(Tail(ms), bad)

SendWithFailure(ns, d, bad) ==
    IF d.mode = "botV1" THEN SendUnguarded(Attempts(ns, d), bad)
    ELSE SendGuarded(Attempts(ns, d), bad)

SendEnvs == [SEEN_MAX_KEYS : {Unset}, FILTER_X_MATCH : {FALSE},
             FILTER_MAX_DEPLOYS : {Unset, 1}]

InitSend ==
    /\ env \in SendEnvs
    /\ watchEnv = EmptyWatch
    /\ watchFile \in WatchFiles
    /\ seenFile = <<>>
    /\ deployCountFile = EmptyCounts
    /\ pc = "idle"
    /\ launches = <<>>
    /\ seenMem = <<>>
    /\ newLaunches = <<>>
    /\ decisions = <<>>
    /\ sent = [d \in SendConfigs |-> <<>>]
    /\ cycles = 0
    /\ alerted = {}
    /\ added = <<>>
    /\ countsBefore = EmptyCounts
    /\ fetchedPairs = {}
    /\ seenBefore = <<>>
    /\ io = AllOk
    /\ cycleResult = "none"
    /\ tenants = NoTenants
    /\ lastOp = NoOp
    /\ ops = 0
    /\ InitExtra

SendCycle ==
    /\ pc = "idle"
    /\ cycles = 0
    /\ \E raw \in Batches(FailItems) : Cycle(raw)
    /\ pc' = "deliver"
    /\ cycles' = cycles + 1
    /\ UNCHANGED <<env, watchEnv, watchFile, sent, alerted>>
    /\ UNCHANGED watchOpVars
    /\ UNCHANGED extraVars

\* the delivery loop, with the channel `bad` rejecting every send
DeliverWithFailure ==
    /\ pc = "deliver"
    /\ \E bad \in {NoChannel, "chA", "chW"} :
         /\ failing' = bad
         /\ sent' = [d \in SendConfigs |-> SendWithFailure(newLaunches, d, bad)]
    /\ pc' = "delivered"
    /\ UNCHANGED <<env, watchEnv, watchFile, seenFile, deployCountFile,
                   launches, seenMem, newLaunches, decisions, cycles, alerted,
                   added, countsBefore, fetchedPairs, seenBefore, io,
                   cycleResult, runs, channels, pending, adapter, scan,
                   loop, boot, tstore, lookup, enrich>>
    /\ UNCHANGED watchOpVars

NextSend == SendCycle \/ DeliverWithFailure

SpecSend == InitSend /\ [][NextSend]_vars

-----------------------------------------------------------------------------
(* Properties of delivery with a failing channel (specification SpecSend) *)

\* C22: a failed send to the general alert channel blocks nothing else: the
\* same item still goes to the watch channel (when it is a watch match) and
\* to Telegram, and the remaining items of the cycle are still delivered,
\* that is, exactly the sends to the failing channel are missing.
C22_FailedSendBlocksNothing ==
    pc = "delivered" =>
        \A d \in SendConfigs :
            (failing /= NoChannel /\ d.alert = failing) =>
                sent[d] = SendGuarded(Attempts(newLaunches, d), failing)

-----------------------------------------------------------------------------
(* The tenants file under concurrent updates.  setTenant (tenant-store.js:
   65-87) awaits loadAll, changes the entry of its guild in the object it
   loaded, and awaits saveAll of that whole object; slash-command handlers of
   different guilds run on the same event loop and interleave at the awaits.
   The file is the pair of `channels` and `tenants`. *)

TenantGuilds == {"g1", "g2"}

ChannelId == <<"c">>

\* the `updates` of a /setup-style call: set or clear one channel
ChannelUpdates ==
    {[alertChannelId |-> ChannelId], [watchAlertChannelId |-> ChannelId],
     [telegramChatId |-> ChannelId], [alertChannelId |-> Null]}

TenantsFile == [channels |-> channels, tenants |-> tenants]

\* setTenant on the loaded object: next = {...existing, guildId, ...updates},
\* the watchlist merged over the existing one (tenant-store.js:69-84)
setTenant(file, g, updates) ==
    [channels |->
        [file.channels EXCEPT ![g] =
            [f \in {"exists"} \cup ChannelFields |->
                IF f = "exists" THEN TRUE
                ELSE IF f \in DOMAIN updates THEN updates[f]
                ELSE file.channels[g][f]]],
     tenants |->
        [file.tenants EXCEPT ![g] =
            IF "watchlist" \in DOMAIN updates THEN updates.watchlist ELSE @]]

\* listActiveTenantGuildIds (tenant-store.js:92-98): the keys of the file
\* whose entry has a truthy alert channel, watch channel or Telegram chat
listActiveNoTelegram(file) ==
    {g \in {k \in DOMAIN file.channels : file.channels[k].exists} :
        \/ Truthy(file.channels[g].alertChannelId)
        \/ Truthy(file.channels[g].watchAlertChannelId)}

listActiveTenantGuildIds(file) ==
    {g \in {k \in DOMAIN file.channels : file.channels[k].exists} :
        \/ Truthy(file.channels[g].alertChannelId)
        \/ Truthy(file.channels[g].watchAlertChannelId)
        \/ Truthy(file.channels[g].telegramChatId)}

InitTenant ==
    /\ env = BotEnv
    /\ watchEnv = EmptyWatch
    /\ watchFile = EmptyWatch
    /\ seenFile = <<>>
    /\ deployCountFile = EmptyCounts
    /\ pc = "idle"
    /\ launches = <<>>
    /\ seenMem = <<>>
    /\ newLaunches = <<>>
    /\ decisions = <<>>
    /\ sent = NothingSent
    /\ cycles = 0
    /\ alerted = {}
    /\ added = <<>>
    /\ countsBefore = EmptyCounts
    /\ fetchedPairs = {}
    /\ seenBefore = <<>>
    /\ io = AllOk
    /\ cycleResult = "none"
    /\ tenants = [g \in TenantGuilds |-> EmptyWatch]
    /\ lastOp = NoOp
    /\ ops = 0
    /\ runs = NoRuns
    /\ failing = NoChannel
    /\ channels = [g \in TenantGuilds |-> NoEntry]
    /\ pending = NoCalls
    /\ adapter = NoFetch
    /\ scan = NoScan
    /\ loop = LoopStart
    /\ InitLate

tenantFrame == <<env, watchEnv, watchFile, seenFile, deployCountFile, pc,
                 launches, seenMem, newLaunches, decisions, sent, cycles,
                 alerted, added, countsBefore, fetchedPairs, seenBefore, io,
                 cycleResult, lastOp, ops, runs, failing, adapter, scan,
                 loop, boot, tstore, lookup, enrich>>

Begins(i, g, updates) ==
    /\ pending[i].pc = "idle"
    /\ \A j \in 1..(i - 1) : pending[j].pc /= "idle"
    /\ pending' = [pending EXCEPT ![i] =
                      [pc |-> "loaded", guild |-> g, updates |-> updates,
                       file |-> TenantsFile]]
    /\ UNCHANGED <<channels, tenants>>
    /\ UNCHANGED tenantFrame

\* setTenant(g, updates) called by a handler: loadAll has returned
SetTenantLoads(i) ==
    \E g \in TenantGuilds, u \in ChannelUpdates : Begins(i, g, u)

\* updateWatchListForGuild that changes the list: it calls
\* setTenant(g, {watchlist}) (tenant-store.js:137)
UpdateWatchListLoads(i) ==
    \E g \in TenantGuilds, type \in {"x", "keywords"}, add \in BOOLEAN :
      \E v \in {<<"b","o","b">>, <<"M","o","o","n">>} :
        LET r == updateWatchListForGuild(tenants[g], type, v, add)
        IN /\ r.ret
           /\ r.raw /= tenants[g]
           /\ Begins(i, g, [watchlist |-> r.raw])

\* saveAll(tenants) of the call i writes the object it loaded, with the entry
\* of its guild replaced
SetTenantSaves(i) ==
    /\ pending[i].pc = "loaded"
    /\ LET next == setTenant(pending[i].file, pending[i].guild,
                             pending[i].updates)
       IN /\ channels' = next.channels
          /\ tenants' = next.tenants
    /\ pending' = [pending EXCEPT ![i] = [@ EXCEPT !.pc = "done",
                                                   !.file = <<>>]]
    /\ UNCHANGED tenantFrame

NextTenant ==
    \E i \in 1..MaxCalls :
        SetTenantLoads(i) \/ UpdateWatchListLoads(i) \/ SetTenantSaves(i)

SpecTenant == InitTenant /\ [][NextTenant]_vars

-----------------------------------------------------------------------------
(* Properties of the tenants file (specification SpecTenant) *)

\* C23: an update of one guild's configuration or watch list never changes,
\* drops or reverts what is stored for any other guild, whatever the
\* interleaving of concurrently running updates on different guilds.
C23_TenantIsolation ==
    [][\A i \in 1..MaxCalls :
          (pending[i].pc = "loaded" /\ pending'[i].pc = "done") =>
              \A g \in TenantGuilds \ {pending[i].guild} :
                  channels'[g] = channels[g] /\ tenants'[g] = tenants[g]]_vars

Active == listActiveTenantGuildIds(TenantsFile)

\* every saved call on the guild g was a watch-list update
OnlyWatchListUpdates(g) ==
    \A i \in 1..MaxCalls :
        (pending[i].pc = "done" /\ pending[i].guild = g) =>
            "watchlist" \in DOMAIN pending[i].updates

\* C26: a tenant is active iff its stored entry has a non-empty alert
\* channel, watch channel or Telegram chat; a tenant created only by
\* watch-list updates is never active.
C26_ActiveIffChannel ==
    \A g \in TenantGuilds :
        /\ g \in Active <=>
              /\ channels[g].exists
              /\ \E f \in ChannelFields : channels[g][f] /= Null
        /\ OnlyWatchListUpdates(g) => g \notin Active

\* a tenant that exists through a watch-list update alone is left out,
\* while the other guild is active through its Telegram chat alone
C26_Witness ==
    \E g, h \in TenantGuilds :
        /\ channels[g].exists
        /\ tenants[g] /= EmptyWatch
        /\ OnlyWatchListUpdates(g)
        /\ g \notin Active
        /\ h \in Active
        /\ channels[h].alertChannelId = Null
        /\ channels[h].watchAlertChannelId = Null

-----------------------------------------------------------------------------
(* The empty batch (specification SpecFail) *)

-----------------------------------------------------------------------------
(* fetchLaunches (notify.js:192-261) with each provider answering on its
   own: the Bankr API, the Doppler indexer, the chain scan *)

OtherChainId == 1

Answer(outcome, items) == [outcome |-> outcome, items |-> items]

BankrAnswers ==
    {Answer("error", <<>>), Answer("empty", <<>>), Answer("items", <<L1>>),
     Answer("items", <<L1, L2>>)}

IndexerAnswers ==
    {Answer("networkError", <<>>), Answer("nonOk", <<>>),
     Answer("graphqlErrors", <<L3>>), Answer("empty", <<>>),
     Answer("items", <<L3>>)}

ChainAnswers ==
    {Answer("fail", <<>>), Answer("items", <<>>), Answer("items", <<L4>>)}

\* fetchFromBankrApi (notify.js:127-172): the deduplicated launches, or null
fetchFromBankrApi(a) ==
    IF a.key /\ a.bankr.outcome = "items" THEN BankrDedupe(a.bankr.items, {})
    ELSE <<>>

\* if (BANKR_API_KEY && CHAIN_ID === 8453)  (notify.js:193)
UseBankrAnyChain(a) == a.key

UseBankr(a) == a.key /\ a.chainId = CHAIN_ID

Fetched(threw, consulted, list) ==
    [threw |-> threw, consulted |-> consulted, list |-> list]

fetchLaunchesFrom(a) ==
    LET bankrLaunches == IF UseBankr(a) THEN fetchFromBankrApi(a) ELSE <<>>
        c1 == IF UseBankr(a) THEN <<"bankr">> ELSE <<>>
        c2 == c1 \o <<"indexer">>
        c3 == c2 \o <<"chain">>
    IN IF UseBankr(a) /\ Len(bankrLaunches) > 0
       THEN Fetched(FALSE, c1, bankrLaunches)
       ELSE IF a.indexer.outcome = "networkError"
       THEN Fetched(TRUE, c2, <<>>)
       ELSE IF a.indexer.outcome = "items" /\ Len(a.indexer.items) > 0
       THEN Fetched(FALSE, c2, a.indexer.items)
       ELSE IF a.chain.outcome = "fail"
       THEN Fetched(FALSE, c3, <<>>)
       ELSE Fetched(FALSE, c3,
                    [i \in DOMAIN a.chain.items |->
                        ChainLaunch(a.chain.items[i])])

InitFetch ==
    /\ env = BotEnv
    /\ watchEnv = EmptyWatch
    /\ watchFile = EmptyWatch
    /\ seenFile = <<>>
    /\ deployCountFile = EmptyCounts
    /\ pc = "idle"
    /\ launches = <<>>
    /\ seenMem = <<>>
    /\ newLaunches = <<>>
    /\ decisions = <<>>
    /\ sent = NothingSent
    /\ cycles = 0
    /\ alerted = {}
    /\ added = <<>>
    /\ countsBefore = EmptyCounts
    /\ fetchedPairs = {}
    /\ seenBefore = <<>>
    /\ io = AllOk
    /\ cycleResult = "none"
    /\ tenants = NoTenants
    /\ lastOp = NoOp
    /\ ops = 0
    /\ runs = NoRuns
    /\ failing = NoChannel
    /\ channels = NoEntries
    /\ pending = NoCalls
    /\ scan = NoScan
    /\ loop = LoopStart
    /\ InitLate
    /\ adapter \in {[NoFetch EXCEPT !.key = k, !.chainId = c, !.bankr = b,
                                    !.indexer = x, !.chain = n] :
                       k \in BOOLEAN, c \in {CHAIN_ID, OtherChainId},
                       b \in BankrAnswers, x \in IndexerAnswers,
                       n \in ChainAnswers}

FetchLaunches ==
    /\ ~adapter.called
    /\ LET f == fetchLaunchesFrom(adapter)
       IN adapter' = [adapter EXCEPT !.called = TRUE, !.threw = f.threw,
                                     !.consulted = f.consulted,
                                     !.list = f.list]
    /\ UNCHANGED <<env, watchEnv, watchFile, seenFile, deployCountFile, pc,
                   launches, seenMem, newLaunches, decisions, sent, cycles,
                   alerted, added, countsBefore, fetchedPairs, seenBefore, io,
                   cycleResult, runs, failing, channels, pending, scan,
                   loop, boot, tstore, lookup, enrich>>
    /\ UNCHANGED watchOpVars

NextFetch == FetchLaunches

SpecFetch == InitFetch /\ [][NextFetch]_vars

-----------------------------------------------------------------------------
(* Properties of fetchLaunches (specification SpecFetch) *)

Order ==
    IF adapter.key /\ adapter.chainId = 8453
    THEN <<"bankr", "indexer", "chain">> ELSE <<"indexer", "chain">>

\* the launches a provider yields, in the form fetchLaunches passes them on
Yield(p) ==
    CASE p = "bankr" ->
           IF adapter.bankr.outcome = "items"
           THEN BankrDedupe(adapter.bankr.items, {}) ELSE <<>>
      [] p = "indexer" ->
           IF adapter.indexer.outcome = "items"
           THEN adapter.indexer.items ELSE <<>>
      [] p = "chain" ->
           IF adapter.chain.outcome = "items"
           THEN [i \in DOMAIN adapter.chain.items |->
                    ChainLaunch(adapter.chain.items[i])]
           ELSE <<>>

\* C25: providers are consulted in the fixed order Bankr API (only with an
\* API key and chain id 8453), indexer, chain scan; a provider is consulted
\* only if every earlier one yielded no item, and the batch returned is what
\* the last consulted provider yielded, never a merge.
C25_ProviderFallbackOrder ==
    adapter.called =>
        LET n == Len(adapter.consulted)
        IN /\ n >= 1
           /\ n <= Len(Order)
           /\ adapter.consulted = SubSeq(Order, 1, n)
           /\ \A i \in 1..(n - 1) : Yield(Order[i]) = <<>>
           /\ ~adapter.threw =>
                /\ adapter.list = Yield(Order[n])
                /\ n < Len(Order) => adapter.list /= <<>>

\* the Bankr API answered with nothing although the key is set, so the
\* indexer's launches are the batch; and a call on another chain that skips
\* a Bankr API that would have answered
C25_Witness ==
    /\ adapter.called
    /\ adapter.key
    /\ \/ /\ adapter.chainId = CHAIN_ID
          /\ adapter.consulted = <<"bankr", "indexer">>
          /\ adapter.list = <<L3>>
       \/ /\ adapter.chainId = OtherChainId
          /\ adapter.bankr.outcome = "items"
          /\ adapter.consulted = <<"indexer", "chain">>
          /\ adapter.list = <<ChainLaunch(L4)>>

-----------------------------------------------------------------------------
(* Order and stored form of the registries (specification SpecWatch) *)

Ascending(list) ==
    \A i, j \in DOMAIN list : i < j => ~StrLess(list[j], list[i])

AscendingBase(list) ==
    \A i, j \in DOMAIN list : i < j => ~BaseLess(list[j], list[i])

\* C27: from an empty registry, after any sequence of adds and removes the
\* X, Farcaster and wallet arrays are sorted ascending, the keyword array is
\* sorted case-insensitively, and no array holds the same entry twice.
C27_SortedNoDuplicates ==
    \A w \in {watchFile} \cup {tenants[g] : g \in Guilds} :
        /\ Ascending(w.x)
        /\ Ascending(w.fc)
        /\ Ascending(w.wallet)
        /\ AscendingBase(w.keywords)
        /\ \A axis \in Axes : NoExactRepeat(w[axis])

\* al is added to a registry that holds bob and comes to stand before it;
\* Sun is added to keywords that hold moon and comes to stand after it
C27_Witness ==
    /\ lastOp.kind = "add"
    /\ lastOp.ret
    /\ \/ /\ lastOp.axis = "x"
          /\ lastOp.before.x = <<<<"b","o","b">>>>
          /\ StoreNow.x = <<<<"a","l">>, <<"b","o","b">>>>
       \/ /\ lastOp.axis = "keywords"
          /\ lastOp.store = "global"
          /\ lastOp.before.keywords = <<<<"m","o","o","n">>>>
          /\ StoreNow.keywords = <<<<"m","o","o","n">>, <<"S","u","n">>>>

\* C28: in the global and in the tenant registry an X handle is stored
\* trimmed, in lower case and without a leading @, the form the match engine
\* compares a launch's normalized deployer handle against: after a
\* successful add the registry holds that form of the value, and every
\* stored X handle is its own normal form.
C28_HandleNormalizedAtWrite ==
    /\ (lastOp.kind = "add" /\ lastOp.axis = "x" /\ lastOp.ret) =>
          parseHandle(lastOp.value, TRUE) \in Range(StoreNow.x)
    /\ \A w \in {watchFile} \cup {tenants[g] : g \in Guilds} :
          \A h \in Range(w.x) : normX(h) = h

-----------------------------------------------------------------------------
(* The chain scan of the notify loop: fetchNewLaunches (README.md:656-686)
   with .bankr-last-block.json, on a chain whose head moves between polls *)

BlocksBack == 2
MaxHead == 8
MaxPolls == 3

InitScan ==
    /\ env = BotEnv
    /\ watchEnv = EmptyWatch
    /\ watchFile = EmptyWatch
    /\ seenFile = <<>>
    /\ deployCountFile = EmptyCounts
    /\ pc = "idle"
    /\ launches = <<>>
    /\ seenMem = <<>>
    /\ newLaunches = <<>>
    /\ decisions = <<>>
    /\ sent = NothingSent
    /\ cycles = 0
    /\ alerted = {}
    /\ added = <<>>
    /\ countsBefore = EmptyCounts
    /\ fetchedPairs = {}
    /\ seenBefore = <<>>
    /\ io = AllOk
    /\ cycleResult = "none"
    /\ tenants = NoTenants
    /\ lastOp = NoOp
    /\ ops = 0
    /\ runs = NoRuns
    /\ failing = NoChannel
    /\ channels = NoEntries
    /\ pending = NoCalls
    /\ adapter = NoFetch
    /\ loop = LoopStart
    /\ InitLate
    /\ scan \in {[NoScan EXCEPT !.head = h] : h \in BlocksBack..(BlocksBack + 1)}

scanFrame == <<env, watchEnv, watchFile, seenFile, deployCountFile, pc,
               launches, seenMem, newLaunches, decisions, sent, cycles,
               alerted, added, countsBefore, fetchedPairs, seenBefore, io,
               cycleResult, tenants, lastOp, ops, runs, failing, channels,
               pending, adapter, loop, boot, tstore, lookup, enrich>>

\* the chain grows between two polls
NewBlocks ==
    /\ \E d \in 1..2 :
         /\ scan.head + d <= MaxHead
         /\ scan' = [scan EXCEPT !.head = @ + d]
    /\ UNCHANGED scanFrame

\* fromBlock of fetchNewLaunches (README.md:662-671)
fromBlock(block, lastBlock, storedChain, chainId) ==
    IF storedChain = chainId /\ lastBlock < block
    THEN lastBlock + 1
    ELSE block - BlocksBack

\* fetchNewLaunches: getLogsChunked(client, fromBlock, block), then the head
\* is written to the file
FetchNewLaunches ==
    /\ Len(scan.ranges) < MaxPolls
    /\ LET block == scan.head
           from  == fromBlock(block, scan.lastBlock, scan.storedChain, CHAIN_ID)
       IN scan' = [scan EXCEPT
                      !.ranges = Append(@, [from |-> from, to |-> block]),
                      !.lastBlock = block,
                      !.storedChain = CHAIN_ID]
    /\ UNCHANGED scanFrame

NextScan == NewBlocks \/ FetchNewLaunches

SpecScan == InitScan /\ [][NextScan]_vars

-----------------------------------------------------------------------------
(* Properties of the chain scan (specification SpecScan) *)

\* C29: after the first run every call of fetchNewLaunches scans only the
\* blocks after the last persisted block, from lastBlock+1 to the head, so
\* that consecutive polls cover contiguous ranges that do not overlap, also
\* when the head has not moved since the previous poll.
C29_IncrementalScan ==
    \A k \in 2..Len(scan.ranges) :
        scan.ranges[k].from = scan.ranges[k - 1].to + 1

-----------------------------------------------------------------------------
(* The standalone notify loop (tenant-store.js:157-182): while (true), spawn
   notify.js as a child process and await its exit, log a non-zero exit, then
   await a timer of INTERVAL.  The child is main of notify.js: the cycle, the
   delivery loop, exit 0; a cycle that throws makes it exit 1. *)

InitLoop ==
    /\ env = BotEnv
    /\ watchEnv = EmptyWatch
    /\ watchFile = EmptyWatch
    /\ seenFile = <<>>
    /\ deployCountFile = EmptyCounts
    /\ pc = "idle"
    /\ launches = <<>>
    /\ seenMem = <<>>
    /\ newLaunches = <<>>
    /\ decisions = <<>>
    /\ sent = NothingSent
    /\ cycles = 0
    /\ alerted = {}
    /\ added = <<>>
    /\ countsBefore = EmptyCounts
    /\ fetchedPairs = {}
    /\ seenBefore = <<>>
    /\ io = AllOk
    /\ cycleResult = "none"
    /\ tenants = NoTenants
    /\ lastOp = NoOp
    /\ ops = 0
    /\ InitExtra

loopFrame == <<env, watchEnv, watchFile, seenFile, deployCountFile, pc,
               launches, seenMem, newLaunches, decisions, sent, cycles,
               alerted, added, countsBefore, fetchedPairs, seenBefore, io,
               cycleResult, tenants, lastOp, ops, runs, failing, channels,
               pending, adapter, scan, boot, tstore, lookup, enrich>>

\* runNotify(): spawn(process.execPath, [notify.js])
Spawn ==
    /\ loop.pc = "spawn"
    /\ loop.started < MaxCycles
    /\ loop' = [loop EXCEPT !.pc = "await", !.child = "running",
                            !.started = @ + 1]
    /\ UNCHANGED loopFrame

\* the child's runNotifyCycle: it returns, or the write of the seen file
\* fails and it throws
ChildCycle ==
    /\ pc = "idle"
    /\ cycles < MaxCycles
    /\ \E raw \in Batches(FailItems), seenWrite \in BOOLEAN :
          CycleIO(raw, [AllOk EXCEPT !.seenWrite = seenWrite])
    /\ pc' = IF cycleResult' = "returned" THEN "deliver" ELSE "threw"
    /\ cycles' = cycles + 1
    /\ UNCHANGED <<env, watchEnv, watchFile, sent, alerted>>
    /\ UNCHANGED watchOpVars
    /\ UNCHANGED extraVars

\* the child runs its cycle, then its delivery loop
ChildRuns ==
    /\ loop.child = "running"
    /\ ChildCycle \/ Deliver

\* the child exits: 0 after the delivery loop, 1 from main().catch
ChildExits ==
    /\ loop.child = "running"
    /\ pc \in {"delivered", "threw"}
    /\ loop' = [loop EXCEPT !.child = IF pc = "delivered" THEN "exit0"
                                      ELSE "exit1",
                            !.exited = @ + 1]
    /\ UNCHANGED loopFrame

\* the exited child's memory is gone
ChildGone ==
    /\ loop.child \in {"exit0", "exit1"}
    /\ Finish \/ Abort

\* where loop() goes once the promise of runNotify() has settled: the catch
\* block swallows the rejection, so both ways lead to the timer
AfterChildNoCatch(child) == IF child = "exit0" THEN "sleep" ELSE "stopped"

AfterChild(child) == "sleep"

\* the 'exit' handler resolves or rejects; a rejection is logged
Settles ==
    /\ loop.pc = "await"
    /\ loop.child \in {"exit0", "exit1"}
    /\ pc = "idle"
    /\ loop' = [loop EXCEPT !.pc = AfterChild(loop.child),
                            !.child = "none",
                            !.logged = IF loop.child = "exit1" THEN @ + 1
                                       ELSE @,
                            !.delay = "INTERVAL"]
    /\ UNCHANGED loopFrame

\* setTimeout(r, INTERVAL) fires: the while loop goes round
TimerExpires ==
    /\ loop.pc = "sleep"
    /\ loop' = [loop EXCEPT !.pc = "spawn", !.delay = "none"]
    /\ UNCHANGED loopFrame

NextLoop ==
    \/ Spawn \/ ChildRuns \/ ChildExits \/ ChildGone \/ Settles
    \/ TimerExpires

\* every pending step is taken in the end: the child runs to its exit, the
\* exit event and the timer fire
SpecLoop == InitLoop /\ [][NextLoop]_vars /\ WF_vars(NextLoop)

-----------------------------------------------------------------------------
(* Properties of the standalone loop (specification SpecLoop) *)

\* C30: the standalone loop runs cycles strictly one after another with a
\* fixed delay and never stops: a new child is never started before the
\* previous one has exited, a failed cycle is logged, the next cycle is
\* started only by the timer of INTERVAL (no retry, no backoff), and after a
\* failed cycle the next one is still started.
C30_LoopNeverStops ==
    /\ [](/\ loop.started - loop.exited <= 1
          /\ loop.child = "running" <=> loop.started - loop.exited = 1
          /\ loop.pc = "sleep" => loop.delay = "INTERVAL"
          /\ loop.pc /= "stopped")
    /\ [][/\ loop'.started > loop.started =>
                loop.pc = "spawn" /\ loop.child = "none"
          /\ (loop'.pc = "spawn" /\ loop.pc /= "spawn") => loop.pc = "sleep"
          /\ loop.child = "exit1" /\ loop'.child = "none" =>
                loop'.logged = loop.logged + 1 /\ loop'.pc = "sleep"]_vars
    /\ \A n \in 1..(MaxCycles - 1) :
          (loop.child = "exit1" /\ loop.started = n) ~> (loop.started = n + 1)

\* the first child exited with status 1, which was logged, and the second
\* child is running
C30_Witness ==
    /\ loop.logged = 1
    /\ loop.started = 2
    /\ loop.child = "running"
    /\ pc = "deliver"

-----------------------------------------------------------------------------
(* The start of the bot process.  discord-bot.js imports runNotifyCycle,
   buildLaunchEmbed and sendTelegram from notify.js (discord-bot.js:17,
   part_007:36); an import evaluates the imported module's body first, and
   the body of notify.js ends with an unconditional main().catch(...)
   (notify.js:697-700). *)

\* the variables of the notify cycle and of the watch-list operations
earlyVars == <<env, watchEnv, watchFile, seenFile, deployCountFile, pc,
               launches, seenMem, newLaunches, decisions, sent, cycles,
               alerted, added, countsBefore, fetchedPairs, seenBefore, io,
               cycleResult, tenants, lastOp, ops>>

midVars == <<runs, failing, channels, pending, adapter, scan, loop>>

\* no cycle has run and no watch-list operation has been done
QuietCycle ==
    /\ env = BotEnv
    /\ watchEnv = EmptyWatch
    /\ watchFile = EmptyWatch
    /\ seenFile = <<>>
    /\ deployCountFile = EmptyCounts
    /\ pc = "idle"
    /\ launches = <<>>
    /\ seenMem = <<>>
    /\ newLaunches = <<>>
    /\ decisions = <<>>
    /\ sent = NothingSent
    /\ cycles = 0
    /\ alerted = {}
    /\ added = <<>>
    /\ countsBefore = EmptyCounts
    /\ fetchedPairs = {}
    /\ seenBefore = <<>>
    /\ io = AllOk
    /\ cycleResult = "none"
    /\ tenants = NoTenants
    /\ lastOp = NoOp
    /\ ops = 0

QuietMid ==
    /\ runs = NoRuns
    /\ failing = NoChannel
    /\ channels = NoEntries
    /\ pending = NoCalls
    /\ adapter = NoFetch
    /\ scan = NoScan
    /\ loop = LoopStart

\* `node src/discord-bot.js` with any combination of DISCORD_BOT_TOKEN,
\* DISCORD_ALERT_CHANNEL_ID, DISCORD_WATCH_ALERT_CHANNEL_ID,
\* DISCORD_WEBHOOK_URL, TELEGRAM_BOT_TOKEN and TELEGRAM_CHAT_ID
InitBoot ==
    /\ QuietCycle
    /\ QuietMid
    /\ boot \in {[NoBoot EXCEPT !.pc = "import", !.token = t, !.alert = a,
                                !.watch = w, !.webhook = h, !.tgToken = gt,
                                !.tgChat = gc] :
                    t \in BOOLEAN, a \in BOOLEAN, w \in BOOLEAN,
                    h \in BOOLEAN, gt \in BOOLEAN, gc \in BOOLEAN}
    /\ tstore = NoStore
    /\ lookup = NoLookup
    /\ enrich = NoEnrich

bootFrame == <<earlyVars, midVars, tstore, lookup, enrich>>

\* !DISCORD_WEBHOOK && !(TELEGRAM_TOKEN && TELEGRAM_CHAT)  (notify.js:683)
NoDestination(b) == ~b.webhook /\ ~(b.tgToken /\ b.tgChat)

\* process.exit(1)
Exit1(b) == [b EXCEPT !.pc = "exited", !.exitCode = 1]

\* main() of notify.js up to its first await (notify.js:682-690)
main(b) ==
    IF NoDestination(b) THEN Exit1(b)
    ELSE [b EXCEPT !.pc = "module", !.ownCycle = "running"]

\* The import at discord-bot.js:17 evaluates the body of notify.js, whose
\* last statement calls main() (notify.js:697)
ImportNotify ==
    /\ boot.pc = "import"
    /\ boot' = main(boot)
    /\ UNCHANGED bootFrame

\* The body of discord-bot.js (discord-bot.js:26-29, 187)
ModuleBody ==
    /\ boot.pc = "module"
    /\ boot' = IF ~boot.token THEN Exit1(boot)
               ELSE [boot EXCEPT !.pc = "login"]
    /\ UNCHANGED bootFrame

\* runNotify of the bot: a cycle in the bot's process when a channel is
\* configured, a spawned notify.js otherwise (discord-bot.js:83-110)
runNotifyFrom(b) ==
    IF b.alert \/ b.watch THEN [b EXCEPT !.scheduled = @ + 1]
    ELSE [b EXCEPT !.spawned = @ + 1]

\* client.once("ready"): setInterval(...) and the first runNotify()
\* (discord-bot.js:432-435)
Ready ==
    /\ boot.pc = "login"
    /\ boot' = [runNotifyFrom(boot) EXCEPT !.pc = "ready"]
    /\ UNCHANGED bootFrame

\* The interval timer fires (discord-bot.js:432-434)
IntervalFires ==
    /\ boot.pc = "ready"
    /\ boot.scheduled + boot.spawned < MaxPolls
    /\ boot' = runNotifyFrom(boot)
    /\ UNCHANGED bootFrame

\* The cycle started by main() ends: main goes on to its sends, or the
\* cycle threw and main().catch exits the process (notify.js:690-700)
OwnCycleEnds ==
    /\ boot.pc /= "exited"
    /\ boot.ownCycle = "running"
    /\ \E threw \in BOOLEAN :
         boot' = IF threw THEN Exit1([boot EXCEPT !.ownCycle = "threw"])
                 ELSE [boot EXCEPT !.ownCycle = "done"]
    /\ UNCHANGED bootFrame

NextBoot ==
    \/ ImportNotify
    \/ ModuleBody
    \/ Ready
    \/ IntervalFires
    \/ OwnCycleEnds

SpecBoot == InitBoot /\ [][NextBoot]_vars

(* C31: a bot started with its token and an alert or watch channel but with
   neither a webhook nor Telegram credentials keeps running, and no notify
   cycle is started by anything but the bot's scheduler: the import of
   notify.js neither ends the process nor starts a cycle of its own. *)
C31_ImportIsInert ==
    (/\ boot.token
     /\ boot.alert \/ boot.watch
     /\ NoDestination(boot))
        => /\ boot.pc /= "exited"
           /\ boot.ownCycle = "none"

-----------------------------------------------------------------------------
(* Concurrent add operations on the global watch store.  Every add of
   watch-store.js awaits loadRaw(), changes the object it got, and awaits
   saveRaw(raw) of the whole object (watch-store.js:76-129); calls made by
   different interactions interleave at these awaits. *)

InitRace ==
    /\ QuietCycle
    /\ QuietMid
    /\ InitLate

raceFrame == <<env, watchEnv, seenFile, deployCountFile, pc, launches,
               seenMem, newLaunches, decisions, sent, cycles, alerted, added,
               countsBefore, fetchedPairs, seenBefore, io, cycleResult,
               tenants, lastOp, ops, runs, failing, channels, adapter, scan,
               loop, boot, tstore, lookup, enrich>>

\* addX, addFc, addWallet or addKeyword on the object `raw`
addOn(raw, axis, value) ==
    CASE axis = "x" -> addX(raw, value)
      [] axis = "fc" -> addFc(raw, value)
      [] axis = "wallet" -> addWallet(raw, value)
      [] axis = "keywords" -> addKeyword(raw, value)

\* An add is called; it returns false on a value that does not parse, and
\* otherwise its loadRaw() returns the file as it is now
AddLoads(i) ==
    \E axis \in Axes :
      \E v \in InputsOf(axis) :
        /\ pending[i].pc = "idle"
        /\ \A j \in 1..(i - 1) : pending[j].pc /= "idle"
        /\ pending' = [pending EXCEPT ![i] =
              [pc |-> IF addOn(watchFile, axis, v).ret THEN "loaded"
                      ELSE "false",
               guild |-> "global",
               updates |-> [axis |-> axis, value |-> v],
               file |-> watchFile]]
        /\ UNCHANGED watchFile
        /\ UNCHANGED raceFrame

\* The rest of the add: return true if the loaded object has the value,
\* otherwise push, sort, saveRaw(raw) and return true
AddSaves(i) ==
    /\ pending[i].pc = "loaded"
    /\ watchFile' =
          LET r == addOn(pending[i].file, pending[i].updates.axis,
                         pending[i].updates.value)
          IN IF r.raw = pending[i].file THEN watchFile ELSE r.raw
    /\ pending' = [pending EXCEPT ![i] = [@ EXCEPT !.pc = "true",
                                                   !.file = <<>>]]
    /\ UNCHANGED raceFrame

NextRace == \E i \in 1..MaxCalls : AddLoads(i) \/ AddSaves(i)

SpecRace == InitRace /\ [][NextRace]_vars

\* the watch file holds the value of the call u: adding it again would
\* change nothing
Holds(u) == addOn(watchFile, u.axis, u.value).raw = watchFile

(* C32: no lost update in the global watch store: once two add calls have
   both returned true, the watch file holds the entries of both, whatever
   the interleaving of their load and save steps. *)
C32_NoLostUpdate ==
    \A i \in 1..MaxCalls, j \in 1..MaxCalls :
        (i /= j /\ pending[i].pc = "true" /\ pending[j].pc = "true") =>
            Holds(pending[i].updates) /\ Holds(pending[j].updates)

-----------------------------------------------------------------------------
(* Properties of the bot's delivery to its channels (specification Spec) *)

BotConfigs == {d \in DeliveryConfigs : d.mode \in {"botV1", "botV2"}}

\* the positions of the messages for the item with key k sent to channel c
PostsOf(d, c, k) ==
    {i \in DOMAIN sent[d] :
        /\ sent[d][i].to = c
        /\ <<CHAIN_ID, toLowerCase(sent[d][i].token)>> = k}

OncePerChannel ==
    \A d \in BotConfigs : \A c \in {"chA", "chW"} :
        \A i \in DOMAIN newLaunches :
            LET posts == PostsOf(d, c, Key(newLaunches[i].launch))
            IN /\ Cardinality(posts) <= 1
               /\ (d.alert = c /\ d.watch = c /\ newLaunches[i].passedFilters
                     /\ newLaunches[i].isWatchMatch)
                      => Cardinality(posts) = 1

(* C33: in one cycle an item is posted at most once to a channel, and when
   the alert channel and the watch channel are the same channel an item that
   passes the general filter and matches the watch list is posted there
   exactly once. *)
C33_OncePerChannelPerCycle == pc = "delivered" => OncePerChannel

\* the same when the cycle returned no token twice
OncePerChannelOfDistinct ==
    (pc = "delivered" /\ C6_OneDecisionPerItem) => OncePerChannel

-----------------------------------------------------------------------------
(* setTenant on whole entries (tenant-store.js:65-87).  A JavaScript object
   is a function from its keys; null is the string "null"; a time stamp is
   the value of the clock. *)

MaxClock == 3

\* { ...a, ...b }
Over(a, b) ==
    [k \in DOMAIN a \cup DOMAIN b |-> IF k \in DOMAIN b THEN b[k] ELSE a[k]]

\* o.k of an object that may lack the key: undefined spreads as {}
Sub(o, k) == IF k \in DOMAIN o THEN o[k] ELSE <<>>

DEFAULT_RULES ==
    [filterXMatch |-> FALSE, filterMaxDeploys |-> Unset,
     pollIntervalMs |-> 60000]

DEFAULT_WATCHLIST == [x |-> <<>>, fc |-> <<>>, wallet |-> <<>>,
                      keywords |-> <<>>]

\* loadAll: the parsed file, or {} when reading or parsing it throws
loadAll(file, readable) == IF readable THEN file ELSE <<>>

\* setTenant from the loaded object `all` to the object it saves
setTenantAll(all, key, updates, now) ==
    LET existing == Sub(all, key)
        next0 == Over(Over(Over(existing, [guildId |-> key]), updates),
                      [createdAt |-> IF "createdAt" \in DOMAIN existing
                                     THEN existing.createdAt ELSE now,
                       updatedAt |-> now])
        next1 == IF "rules" \in DOMAIN updates
                 THEN Over(next0,
                           [rules |-> Over(Over(DEFAULT_RULES,
                                                Sub(existing, "rules")),
                                           updates.rules)])
                 ELSE next0
        next  == IF "watchlist" \in DOMAIN updates
                 THEN Over(next1,
                           [watchlist |-> Over(Over(DEFAULT_WATCHLIST,
                                                    Sub(existing, "watchlist")),
                                               updates.watchlist)])
                 ELSE next1
    IN Over(all, [g \in {key} |-> next])

\* The updates built by /setup (part_007:855-864), and updates of single
\* fields, of some rules and of some lists
SetupUpdates ==
    [bankrApiKey |-> "key", alertChannelId |-> "chA",
     watchAlertChannelId |-> "null",
     rules |-> [filterXMatch |-> FALSE, filterMaxDeploys |-> 2,
                pollIntervalMs |-> 60000]]

TenantUpdates ==
    {SetupUpdates,
     [watchAlertChannelId |-> "chW"],
     [telegramChatId |-> "tg"],
     [rules |-> [filterXMatch |-> TRUE]],
     [watchlist |-> [x |-> <<"bob">>]],
     [watchlist |-> [keywords |-> <<"moon">>]]}

InitStore ==
    /\ QuietCycle
    /\ QuietMid
    /\ boot = NoBoot
    /\ tstore = NoStore
    /\ lookup = NoLookup
    /\ enrich = NoEnrich

storeFrame == <<earlyVars, midVars, boot, lookup, enrich>>

\* A handler calls setTenant(g, updates) and the call runs to its end
SetTenantCall ==
    \E g \in TenantGuilds, u \in TenantUpdates, readable \in BOOLEAN :
        /\ tstore.now < MaxClock
        /\ tstore' =
              [file |-> setTenantAll(loadAll(tstore.file, readable), g, u,
                                     tstore.now + 1),
               now  |-> tstore.now + 1,
               last |-> [guild |-> g, updates |-> u, before |-> tstore.file,
                         readable |-> readable, at |-> tstore.now + 1]]
        /\ UNCHANGED storeFrame

NextStore == SetTenantCall

SpecStore == InitStore /\ [][NextStore]_vars

\* merged key by key: the keys of the update take the update's values, the
\* other keys of the stored object keep theirs
MergedOver(old, upd, new) ==
    /\ \A k \in DOMAIN upd : k \in DOMAIN new /\ new[k] = upd[k]
    /\ \A k \in DOMAIN old \ DOMAIN upd : k \in DOMAIN new /\ new[k] = old[k]

SetTenantFrame ==
    LET before == tstore.last.before
        after  == tstore.file
        g      == tstore.last.guild
        u      == tstore.last.updates
        old    == Sub(before, g)
    IN /\ DOMAIN after = DOMAIN before \cup {g}
       /\ \A h \in DOMAIN before \ {g} : after[h] = before[h]
       /\ \A f \in DOMAIN old \ (DOMAIN u \cup {"updatedAt"}) :
              f \in DOMAIN after[g] /\ after[g][f] = old[f]
       /\ "rules" \in DOMAIN u =>
              MergedOver(Sub(old, "rules"), u.rules, after[g].rules)
       /\ "watchlist" \in DOMAIN u =>
              MergedOver(Sub(old, "watchlist"), u.watchlist,
                         after[g].watchlist)
       /\ "createdAt" \in DOMAIN old => after[g].createdAt = old.createdAt
       /\ after[g].updatedAt = tstore.last.at

(* C34: setTenant(g, updates) changes only the entry of guild g; it keeps
   every stored field of g that updates does not name, merges updates.rules
   and updates.watchlist key by key over the stored values, never changes a
   createdAt that is set, and sets updatedAt to the time of the call. *)
C34_SetTenantFrame == tstore.last /= <<>> => SetTenantFrame

\* the same for the calls whose loadAll could read the file
SetTenantFrameWhenRead ==
    (tstore.last /= <<>> /\ tstore.last.readable) => SetTenantFrame

-----------------------------------------------------------------------------
(* The pagination of fetchFromBankrApi (notify.js:127-172), one request at a
   time.  The page size of 50 is scaled down to PageSize, and
   BANKR_LAUNCHES_LIMIT with it. *)

PageSize == 2
MaxLimit == 5

\* a launch of the list API: its token address and its status
Raw(addr, status) == [tokenAddress |-> addr, status |-> status]

\* What one request can be answered with: a rejected fetch, a non-OK status,
\* or a page of launches (full, short, empty, longer than asked for, with
\* repeated addresses in either case, with launches that are not deployed
\* or have no address)
PageAnswers ==
    {[kind |-> "throws", launches |-> <<>>],
     [kind |-> "notok", launches |-> <<>>]}
    \cup
    {[kind |-> "ok", launches |-> p] :
        p \in {<<>>,
               <<Raw(Addr("b"), "deployed")>>,
               <<Raw(Addr("a"), "deployed"), Raw(Addr("b"), "deployed")>>,
               <<Raw(Addr("a"), "deployed"), Raw(Addr("A"), "deployed")>>,
               <<Raw(Addr("A"), "deployed"), Raw(Addr("c"), "deployed")>>,
               <<Raw(Addr("a"), "deployed"), Raw(Addr("c"), "pending")>>,
               <<Raw(Null, "deployed"), Raw(Addr("d"), "deployed")>>,
               <<Raw(Addr("b"), "deployed"), Raw(Addr("c"), "deployed"),
                 Raw(Addr("d"), "deployed")>>}}

\* json.launches?.filter((l) => l.status === "deployed") ?? []
RECURSIVE Deployed(_)
Deployed(ls) ==
    IF ls = <<>> THEN <<>>
    ELSE IF Head(ls).status = "deployed"
    THEN <<Head(ls)>> \o Deployed(Tail(ls))
    ELSE Deployed(Tail(ls))

\* the keys the loop at 156-162 adds to `seen`
KeysOf(batch) ==
    {toLowerCase(batch[i].tokenAddress) : i \in DOMAIN batch} \ {Null}

ShortPageNever(batch) == FALSE

\* batch.length < pageSize
ShortPage(batch) == Len(batch) < PageSize

\* fetchFromBankrApi has been called: seen = new Set(), allLaunches = [],
\* offset = 0
Paging(key, limit) ==
    [pc |-> "loop", key |-> key, limit |-> limit, offset |-> 0,
     seen |-> {}, allLaunches |-> <<>>, got |-> <<>>, threw |-> FALSE,
     result |-> Null]

InitPages ==
    /\ QuietCycle
    /\ runs = NoRuns
    /\ failing = NoChannel
    /\ channels = NoEntries
    /\ pending = NoCalls
    /\ scan = NoScan
    /\ loop = LoopStart
    /\ InitLate
    /\ adapter \in {Paging(k, n) : k \in BOOLEAN, n \in 0..MaxLimit}

pagesFrame == <<earlyVars, runs, failing, channels, pending, scan, loop,
                boot, tstore, lookup, enrich>>

\* if (!BANKR_API_KEY) return null
NoKeyReturns ==
    /\ adapter.pc = "loop"
    /\ ~adapter.key
    /\ adapter' = [adapter EXCEPT !.pc = "returned"]
    /\ UNCHANGED pagesFrame

\* One round of the while loop: the request and what follows its answer
FetchPage ==
    /\ adapter.pc = "loop"
    /\ adapter.key
    /\ adapter.offset < adapter.limit
    /\ \E r \in PageAnswers :
         LET batch == Deployed(r.launches)
             a     == [adapter EXCEPT !.got = Append(@, r)]
         IN adapter' =
              IF r.kind = "throws"
              THEN [a EXCEPT !.pc = "returned", !.threw = TRUE]
              ELSE IF r.kind = "notok" \/ Len(batch) = 0
              THEN [a EXCEPT !.pc = "break"]
              ELSE [a EXCEPT
                      !.allLaunches = @ \o BankrDedupe(batch, adapter.seen),
                      !.seen = @ \cup KeysOf(batch),
                      !.pc = IF ShortPage(batch) THEN "break" ELSE "loop",
                      !.offset = IF ShortPage(batch) THEN @
                                 ELSE @ + Len(batch)]
    /\ UNCHANGED pagesFrame

\* The loop is left by a break or by its condition:
\* if (allLaunches.length > 0) return allLaunches.map(formatBankrLaunch);
\* return null
LeaveLoop ==
    /\ adapter.key
    /\ \/ adapter.pc = "break"
       \/ adapter.pc = "loop" /\ ~(adapter.offset < adapter.limit)
    /\ adapter' = [adapter EXCEPT !.pc = "returned",
                                  !.result = adapter.allLaunches]
    /\ UNCHANGED pagesFrame

NextPages == NoKeyReturns \/ FetchPage \/ LeaveLoop

\* every step of the function is taken once it can be: the requests are
\* answered or rejected
SpecPages == InitPages /\ [][NextPages]_vars /\ WF_vars(NextPages)

-----------------------------------------------------------------------------
(* Properties of the pagination (specification SpecPages) *)

\* ceil(limit / PageSize)
MaxRequests(limit) == (limit + PageSize - 1) \div PageSize

\* the answer ends the pagination: not OK, an empty page or a short page
Stops(r) == r.kind /= "ok" \/ ShortPage(Deployed(r.launches))

\* the addresses, in lower case, of the deployed launches of the OK pages
\* received
Collected ==
    UNION {KeysOf(Deployed(adapter.got[i].launches)) :
              i \in {j \in DOMAIN adapter.got : adapter.got[j].kind = "ok"}}

PagesSafe ==
    /\ Len(adapter.got) <= MaxRequests(adapter.limit)
    /\ \A i \in DOMAIN adapter.got :
          Stops(adapter.got[i]) => i = Len(adapter.got)
    /\ (adapter.pc = "returned" /\ adapter.key /\ ~adapter.threw) =>
          /\ KeysOf(adapter.result) = Collected
          /\ \A i, j \in DOMAIN adapter.result :
                toLowerCase(adapter.result[i].tokenAddress)
                    = toLowerCase(adapter.result[j].tokenAddress) => i = j

(* C35: the pagination of the Bankr API ends and is bounded: at most
   ceil(BANKR_LAUNCHES_LIMIT / page size) requests are made, no request
   follows a non-OK response, an empty page or a short page, the launches
   collected from the pages before such a stop are still returned, and the
   result holds no token address twice, compared without case. *)
C35_PaginationBounded ==
    /\ []PagesSafe
    /\ <>(adapter.pc = "returned")

\* two full pages were collected, the third request was answered non-OK,
\* and the launches of the first two pages are returned
C35_Witness ==
    /\ adapter.pc = "returned"
    /\ Len(adapter.got) = 3
    /\ adapter.got[3].kind = "notok"
    /\ Len(adapter.result) = 3
    /\ Len(adapter.got) = MaxRequests(adapter.limit)

-----------------------------------------------------------------------------
(* The single-launch enrichment of runNotifyCycle (notify.js:616-635), one
   launch of newLaunches at a time, with the requests it issues *)

\* Math.min(parseInt(process.env.BANKR_SINGLE_LAUNCH_FETCH_LIMIT || "15", 10), 25)
SingleLaunchFetchLimit(v) ==
    LET n == IF v = Unset THEN SINGLE_LAUNCH_FETCH_LIMIT ELSE v
    IN IF n < 25 THEN n ELSE 25

\* a launch the list API returned without deployer and fee recipient
Bare(c) == Launch(<<"S","t","a","r">>, <<"T">>, Addr(c), Null, Null, Null, <<>>)

EnrichItems == {L1, Bare("c"), Bare("e")}

\* The block at 618 is reached with the new launches `kept`; walletWatched
\* is hasWatchList && watchWallet.size > 0, key is BANKR_API_KEY
Enriching(v, kept, walletWatched, key) ==
    [pc |-> "loop", limit |-> SingleLaunchFetchLimit(v), input |-> kept,
     kept |-> kept, walletWatched |-> walletWatched, key |-> key, i |-> 1,
     fetched |-> 0, requests |-> <<>>]

InitEnrich ==
    /\ QuietCycle
    /\ QuietMid
    /\ boot = NoBoot
    /\ tstore = NoStore
    /\ lookup = NoLookup
    /\ enrich \in {Enriching(v, kept, w, k) :
                      v \in {Unset, 0, 1, 2, 30},
                      kept \in Batches(EnrichItems),
                      w \in BOOLEAN, k \in BOOLEAN}

enrichFrame == <<earlyVars, midVars, boot, tstore, lookup>>

\* hasWatchList && watchWallet.size > 0 && newLaunches.length > 0 &&
\* BANKR_API_KEY && CHAIN_ID === 8453
EnrichmentRuns ==
    /\ enrich.walletWatched
    /\ Len(enrich.input) > 0
    /\ enrich.key
    /\ CHAIN_ID = 8453

\* One round of `for (const launch of newLaunches)` (620-633); r is what
\* fetchSingleBankrLaunch gets for the launch
EnrichStep ==
    /\ enrich.pc = "loop"
    /\ EnrichmentRuns
    /\ enrich.i <= Len(enrich.kept)
    /\ ~(enrich.fetched >= enrich.limit)
    /\ LET i == enrich.i
       IN IF hasWallet(enrich.kept[i])
          THEN enrich' = [enrich EXCEPT !.i = i + 1]
          ELSE \E r \in Responses :
                 enrich' =
                   IF ~r.ok
                   THEN [enrich EXCEPT !.i = i + 1,
                                       !.requests = Append(@, i)]
                   ELSE [enrich EXCEPT !.i = i + 1,
                                       !.requests = Append(@, i),
                                       !.fetched = @ + 1,
                                       !.kept[i] = Fill(@, r.filled)]
    /\ UNCHANGED enrichFrame

\* The block is skipped, the loop breaks at 621, or newLaunches is exhausted
EnrichEnds ==
    /\ enrich.pc = "loop"
    /\ \/ ~EnrichmentRuns
       \/ enrich.i > Len(enrich.kept)
       \/ enrich.fetched >= enrich.limit
    /\ enrich' = [enrich EXCEPT !.pc = "done"]
    /\ UNCHANGED enrichFrame

NextEnrich == EnrichStep \/ EnrichEnds

SpecEnrich == InitEnrich /\ [][NextEnrich]_vars

-----------------------------------------------------------------------------
(* Properties of the enrichment (specification SpecEnrich) *)

(* C36: in one cycle at most SINGLE_LAUNCH_FETCH_LIMIT single-launch
   requests are issued, the limit being at most 25, whether the requests
   succeed or fail, and only for new launches that have neither a launcher
   nor a fee-recipient wallet. *)
C36_EnrichmentCapped ==
    /\ enrich.limit <= 25
    /\ Len(enrich.requests) <= enrich.limit
    /\ \A k \in DOMAIN enrich.requests :
          ~hasWallet(enrich.input[enrich.requests[k]])

\* the same with the successful requests counted instead of all of them
SuccessfulCapped ==
    /\ enrich.limit <= 25
    /\ enrich.fetched <= enrich.limit
    /\ \A k \in DOMAIN enrich.requests :
          ~hasWallet(enrich.input[enrich.requests[k]])

-----------------------------------------------------------------------------
(* The paged /lookup replies of the bot (discord-bot.js:225-227, 438-499).
   matches is modelled by its length; the clock counts in units of which
   LookupTtl make the 5 minutes of LOOKUP_CACHE_TTL_MS. *)

LOOKUP_PAGE_SIZE == 3
LookupTtl == 2
MaxTime == 4
MaxMatches == 7

Messages == {"m1", "m2"}

\* the lengths of `matches` tried: none, one page, just over a page, three
\* pages
LookupSizes == {0, LOOKUP_PAGE_SIZE, LOOKUP_PAGE_SIZE + 1, MaxMatches}

\* Math.ceil(entry.matches.length / LOOKUP_PAGE_SIZE) || 1
totalPages(entry) ==
    LET n == (entry.matches + LOOKUP_PAGE_SIZE - 1) \div LOOKUP_PAGE_SIZE
    IN IF n = 0 THEN 1 ELSE n

\* pruneLookupCache (438-444)
pruneLookupCache(cache, now) ==
    [id \in {m \in DOMAIN cache : ~(now - cache[m].createdAt > LookupTtl)}
        |-> cache[id]]

nextPageUnguarded(entry, customId) ==
    IF customId = "lookup:next" THEN entry.currentPage + 1
    ELSE entry.currentPage - 1

\* nextPage as computed at 454-457
nextPage(entry, customId) ==
    IF customId = "lookup:next" /\ entry.currentPage < totalPages(entry) - 1
    THEN entry.currentPage + 1
    ELSE IF customId = "lookup:prev" /\ entry.currentPage > 0
    THEN entry.currentPage - 1
    ELSE entry.currentPage

InitLookup ==
    /\ QuietCycle
    /\ QuietMid
    /\ boot = NoBoot
    /\ tstore = NoStore
    /\ lookup = NoLookup
    /\ enrich = NoEnrich

lookupFrame == <<earlyVars, midVars, boot, tstore, enrich>>

\* /lookup answered with n matches in the message m (468-499): the reply is
\* cached only when it has more than one page
LookupCommand ==
    \E m \in Messages \ DOMAIN lookup.cache, n \in LookupSizes :
        /\ lookup' =
              [lookup EXCEPT
                 !.cache = IF n > LOOKUP_PAGE_SIZE
                           THEN Over(@, [id \in {m} |->
                                           [matches |-> n, currentPage |-> 0,
                                            createdAt |-> lookup.now]])
                           ELSE @,
                 !.last = [kind |-> "lookup", msg |-> m, customId |-> "none",
                           reply |-> IF n = 0 THEN "none found" ELSE "page",
                           cached |-> FALSE]]
        /\ UNCHANGED lookupFrame

\* Time passes
ClockTicks ==
    /\ lookup.now < MaxTime
    /\ lookup' = [lookup EXCEPT !.now = @ + 1]
    /\ UNCHANGED lookupFrame

\* A Previous or Next button of the message m is pressed (446-464)
ButtonPressed ==
    \E m \in Messages, customId \in {"lookup:prev", "lookup:next"} :
        LET pruned == pruneLookupCache(lookup.cache, lookup.now)
            press(reply) == [kind |-> "press", msg |-> m,
                             customId |-> customId, reply |-> reply,
                             cached |-> m \in DOMAIN lookup.cache]
        IN /\ lookup' =
                IF m \notin DOMAIN pruned
                THEN [lookup EXCEPT !.cache = pruned,
                                    !.last = press("expired")]
                ELSE [lookup EXCEPT
                        !.cache = [pruned EXCEPT ![m] =
                                     [@ EXCEPT
                                        !.currentPage = nextPage(pruned[m],
                                                                 customId),
                                        !.createdAt = lookup.now]],
                        !.last = press("page")]
           /\ UNCHANGED lookupFrame

NextLookup == LookupCommand \/ ClockTicks \/ ButtonPressed

SpecLookup == InitLookup /\ [][NextLookup]_vars

-----------------------------------------------------------------------------
(* Properties of the lookup cache (specification SpecLookup) *)

PagesInRange ==
    \A m \in DOMAIN lookup.cache :
        /\ 0 <= lookup.cache[m].currentPage
        /\ lookup.cache[m].currentPage <= totalPages(lookup.cache[m]) - 1

\* the entry of the message m was last accessed more than the TTL ago
Stale(m) ==
    /\ m \in DOMAIN lookup.cache
    /\ lookup.now - lookup.cache[m].createdAt > LookupTtl

\* what a press must do, as a relation between the states around it
PressIsRight ==
    (lookup'.last /= lookup.last /\ lookup'.last.kind = "press") =>
        LET m == lookup'.last.msg
            customId == lookup'.last.customId
        IN /\ Stale(m) =>
                /\ lookup'.last.reply = "expired"
                /\ \A k \in DOMAIN lookup'.cache :
                      lookup'.cache[k].currentPage
                          = lookup.cache[k].currentPage
           /\ (m \in DOMAIN lookup.cache /\ ~Stale(m)) =>
                LET page == lookup.cache[m].currentPage
                    last == totalPages(lookup.cache[m]) - 1
                IN lookup'.cache[m].currentPage =
                      IF customId = "lookup:next"
                      THEN (IF page = last THEN page ELSE page + 1)
                      ELSE (IF page = 0 THEN 0 ELSE page - 1)

(* C37: the page of every cached lookup stays within 0 .. totalPages - 1
   whatever buttons are pressed, Next on the last page and Previous on the
   first page leaving it unchanged; and a press on a message whose entry
   was last accessed more than the TTL ago gets the expiry reply and
   changes no page. *)
C37_LookupPagesInRange ==
    /\ []PagesInRange
    /\ [][PressIsRight]_vars

\* a press on an expired message was answered with the expiry reply while
\* another lookup stands on its last page
C37_Witness ==
    /\ lookup.last.kind = "press"
    /\ lookup.last.cached
    /\ lookup.last.reply = "expired"
    /\ \E m \in DOMAIN lookup.cache :
          /\ lookup.cache[m].currentPage = totalPages(lookup.cache[m]) - 1
          /\ lookup.cache[m].currentPage = 2

-----------------------------------------------------------------------------
(* The deploy-count file as JSON (notify.js:284-310).  A value of the file
   is an array of token addresses or, in files of the earlier format, a
   number; a Set is the sequence of its distinct elements in insertion
   order, and null is an element like any other. *)

MaxLegacy == 3

JsonArray(items) == [kind |-> "array", items |-> items]

JsonNumber(n) == [kind |-> "number", n |-> n]

\* new Set(v)
RECURSIVE SetOf(_)
SetOf(v) ==
    IF v = <<>> THEN <<>>
    ELSE LET init == SetOf(SubSeq(v, 1, Len(v) - 1))
         IN IF v[Len(v)] \in Range(init) THEN init
            ELSE Append(init, v[Len(v)])

\* Array(n).fill(null)
FilledWithNull(n) == [i \in 1..n |-> Null]

\* loadDeployCounts on the parsed file
loadDeployCountsJson(raw) ==
    [k \in {toLowerCase(a) : a \in DOMAIN raw} |->
        LET v == raw[CHOOSE a \in DOMAIN raw : toLowerCase(a) = k]
        IN IF v.kind = "array" THEN SetOf(v.items)
           ELSE SetOf(FilledWithNull(v.n))]

\* saveDeployCounts: out[k] = [...v]
saveDeployCountsJson(counts) ==
    [k \in DOMAIN counts |-> JsonArray(counts[k])]

\* deployCounts[addr].add(l.tokenAddress.toLowerCase())  (575-579)
AttributeJson(counts, addr, token) ==
    Over(counts,
         [a \in {addr} |-> SetOf(Append(Sub(counts, addr),
                                        toLowerCase(token)))])

\* the values an actor's entry can have in the file
CountValues ==
    {JsonNumber(n) : n \in 0..MaxLegacy}
    \cup {JsonArray(<<>>), JsonArray(<<Addr("a")>>),
          JsonArray(<<Addr("a"), Addr("b")>>)}

CountFiles ==
    {<<>>}
    \cup {[a \in {Addr("d")} |-> v] : v \in CountValues}
    \cup {[a \in {Addr("d"), Addr("e")} |-> f[a]] :
             f \in [{Addr("d"), Addr("e")} -> CountValues]}

InitCounts ==
    /\ env = BotEnv
    /\ watchEnv = EmptyWatch
    /\ watchFile = EmptyWatch
    /\ seenFile = <<>>
    /\ deployCountFile \in CountFiles
    /\ pc = "idle"
    /\ launches = <<>>
    /\ seenMem = <<>>
    /\ newLaunches = <<>>
    /\ decisions = <<>>
    /\ sent = NothingSent
    /\ cycles = 0
    /\ alerted = {}
    /\ added = <<>>
    /\ countsBefore = <<>>
    /\ fetchedPairs = {}
    /\ seenBefore = <<>>
    /\ io = AllOk
    /\ cycleResult = "none"
    /\ tenants = NoTenants
    /\ lastOp = NoOp
    /\ ops = 0
    /\ InitExtra

countsFrame == <<env, watchEnv, watchFile, seenFile, launches, seenMem,
                 newLaunches, decisions, sent, cycles, alerted, added,
                 fetchedPairs, seenBefore, io, cycleResult, tenants, lastOp,
                 ops, extraVars>>

\* const deployCounts = await loadDeployCounts()  (563)
LoadCounts ==
    /\ pc = "idle"
    /\ countsBefore' = loadDeployCountsJson(deployCountFile)
    /\ pc' = "loaded"
    /\ UNCHANGED deployCountFile
    /\ UNCHANGED countsFrame

\* The attribution loop adds a token to a launcher's counter (575-579)
AttributeToken ==
    /\ pc \in {"loaded", "attributed"}
    /\ \E addr \in {Addr("d"), Addr("e")}, token \in {Addr("a"), Addr("C")} :
          countsBefore' = AttributeJson(countsBefore, addr, token)
    /\ pc' = "attributed"
    /\ UNCHANGED deployCountFile
    /\ UNCHANGED countsFrame

\* await saveDeployCounts(deployCounts)  (581); a failed write is swallowed
\* (307-309)
SaveCounts ==
    /\ pc \in {"loaded", "attributed"}
    /\ \E written \in BOOLEAN :
          /\ deployCountFile' = IF written
                                THEN saveDeployCountsJson(countsBefore)
                                ELSE deployCountFile
          /\ pc' = IF written THEN "saved" ELSE "not saved"
    /\ UNCHANGED countsBefore
    /\ UNCHANGED countsFrame

NextCounts == LoadCounts \/ AttributeToken \/ SaveCounts

SpecCounts == InitCounts /\ [][NextCounts]_vars

-----------------------------------------------------------------------------
(* Properties of the deploy-count file (specification SpecCounts) *)

\* deployCounts[actor]?.size
SizeIn(counts, actor) == Len(Sub(counts, actor))

RoundTrip ==
    pc = "saved" =>
        \A actor \in DOMAIN countsBefore \cup DOMAIN deployCountFile :
            SizeIn(loadDeployCountsJson(deployCountFile), actor)
                = SizeIn(countsBefore, actor)

LegacySize ==
    pc = "loaded" =>
        \A actor \in DOMAIN deployCountFile :
            deployCountFile[actor].kind = "number" =>
                SizeIn(countsBefore, actor) = deployCountFile[actor].n

(* C38: for every actor the count read back by loadDeployCounts after
   saveDeployCounts equals the count before saving, and a numeric entry n of
   the earlier file format loads as a counter of size n. *)
C38_CountsRoundTrip == RoundTrip /\ LegacySize

====
